---- MODULE Spec2Model ----
(***************************************************************************)
(* Fraud-ring investigation workflow (agent-fraud-demo backend).           *)
(*                                                                         *)
(* One case of the registry running_cases is modelled together with the    *)
(* LangGraph workflow that _run_workflow drives for it: load_context ->    *)
(* traverse_graph -> score_neighbors -> select_candidates -> decide_expand *)
(* -> (loop | build_subgraph) -> build_evidence -> generate_report.        *)
(*                                                                         *)
(* Units: scores are thousandths (0.8 = 800), costs are 1/200 cost units   *)
(* (one node = 2, one edge = 1).  Node ids are <<prefix, index>> tuples.   *)
(***************************************************************************)
EXTENDS Integers, Sequences, FiniteSets, TLC

VARIABLES
    backend,        \* the graph database content and feature-lookup behaviour
    running_cases,  \* the registry entry of the case (main.py running_cases)
    wf,             \* the workflow task: its GraphState channels
    pc,             \* the workflow task's position (next node to execute)
    run,            \* bookkeeping of the current run request
    advisor,        \* what the Advisor (LLM) was asked and answered last
    fb,             \* input/output of the FallbackPolicy exerciser
    response,       \* the reply to the latest start or run request
    readers         \* the progress-stream readers of the case (stream_case)

vars == <<backend, running_cases, wf, pc, run, advisor, fb, response, readers>>

----------------------------------------------------------------------------
(* Bounds of the model                                                     *)

MaxRuns == 2            \* run requests accepted per case
MaxFaultsPerRound == 1  \* failing sub-queries injected per expansion round
ChainLen == 12          \* accounts of the transaction-chain data set
MaxFbHop == 11          \* largest hop fed to the FallbackPolicy exerciser
MaxFbCount == 6         \* largest high-risk count fed to the exerciser
MaxSharedDevices == 11  \* largest shared-device count fed to the RiskScorer
MaxSharedIps == 16      \* largest shared-ip count fed to the RiskScorer
MaxTransactions == 51   \* largest transaction count fed to the RiskScorer
MaxCrowd == 6           \* most scored neighbours fed to the EvidenceBuilder

(* Program constants                                                       *)

ABSOLUTE_MAX_HOPS == 10
FRAUD_RING_THRESHOLD == 800
DEFAULT_MAX_NODES == 80
DEFAULT_MAX_EDGES == 1000
DEFAULT_MAX_HOPS == 3
DEFAULT_COST_BUDGET == 200
MIN_NODE_BUDGET == 10
FANOUT_LIMIT == 10
ERROR_DEFAULT_SCORE == 100
RATIONALE_LIMIT == 5

----------------------------------------------------------------------------
(* Generic helpers                                                         *)

Range(s) == {s[i] : i \in DOMAIN s}

Min(a, b) == IF a <= b THEN a ELSE b

Max(a, b) == IF a >= b THEN a ELSE b

Take(s, n) == SubSeq(s, 1, Min(Max(n, 0), Len(s)))

NoValue == [none |-> TRUE]

Acct(i) == <<"A", i>>

Dev(i) == <<"D_", i>>

Ip(i) == <<"IP_", i>>

ALL_EDGE_TYPES == <<"device", "ip", "tx">>

----------------------------------------------------------------------------
(* The graph backend: data sets and the Gremlin queries run against them   *)

Features(sd, si, tx, vpn, emu) ==
    [shared_device_accounts |-> sd, shared_ip_accounts |-> si,
     transaction_count |-> tx, is_vpn_user |-> vpn, is_emulator_user |-> emu]

ZeroFeatures == Features(0, 0, 0, FALSE, FALSE)

CriticalFeatures == Features(10, 15, 50, TRUE, TRUE)

MediumFeatures == Features(10, 3, 0, FALSE, FALSE)

FeatureOk(f) == [kind |-> "ok", features |-> f, answered |-> 7]

FeatureRaise == [kind |-> "raise", features |-> ZeroFeatures, answered |-> 0]

FeaturePartial(f, k) == [kind |-> "ok", features |-> f, answered |-> k]

\* suspect with no graph connections
IsolatedData ==
    [name |-> "isolated", n_acc |-> 1, n_dev |-> 1, n_ip |-> 1,
     uses_device |-> {}, uses_ip |-> {}, transacts |-> {},
     features |-> [i \in 1..1 |-> FeatureOk(ZeroFeatures)]]

\* suspect with no graph connections and a feature provider that is unreachable
UnreachableData ==
    [name |-> "unreachable", n_acc |-> 1, n_dev |-> 1, n_ip |-> 1,
     uses_device |-> {}, uses_ip |-> {}, transacts |-> {},
     features |-> [i \in 1..1 |-> FeatureRaise]]

\* suspect A1 and A2 share two devices and an ip; A3 shares the ip only;
\* A2 transacts with A4
RingData ==
    [name |-> "ring", n_acc |-> 4, n_dev |-> 2, n_ip |-> 1,
     uses_device |-> {<<1, 1>>, <<1, 2>>, <<2, 1>>, <<2, 2>>},
     uses_ip |-> {<<1, 1>>, <<2, 1>>, <<3, 1>>},
     transacts |-> {<<2, 4>>},
     features |-> [i \in 1..4 |->
         CASE i = 1 -> FeatureOk(MediumFeatures)
           [] i = 2 -> FeatureOk(CriticalFeatures)
           [] i = 3 -> FeaturePartial(CriticalFeatures, 4)
           [] OTHER -> FeatureRaise]]

\* a critical suspect transacting with two accounts that share a device
StarData ==
    [name |-> "star", n_acc |-> 3, n_dev |-> 1, n_ip |-> 1,
     uses_device |-> {<<2, 1>>, <<3, 1>>},
     uses_ip |-> {},
     transacts |-> {<<1, 2>>, <<3, 1>>},
     features |-> [i \in 1..3 |->
         CASE i = 1 -> FeatureOk(CriticalFeatures)
           [] i = 2 -> FeatureOk(CriticalFeatures)
           [] OTHER -> FeatureOk(ZeroFeatures)]]

\* A1 - A2 - ... - A(ChainLen), linked by transactions only
ChainData ==
    [name |-> "chain", n_acc |-> ChainLen, n_dev |-> 1, n_ip |-> 1,
     uses_device |-> {}, uses_ip |-> {},
     transacts |-> {<<i, i + 1>> : i \in 1..(ChainLen - 1)},
     features |-> [i \in 1..ChainLen |->
         IF i \in 4..8 THEN FeatureOk(CriticalFeatures)
                       ELSE FeatureOk(ZeroFeatures)]]

\* the suspect transacts with A2 and A3, which share a device with the
\* critical account A4
FanData ==
    [name |-> "fan", n_acc |-> 4, n_dev |-> 1, n_ip |-> 1,
     uses_device |-> {<<2, 1>>, <<3, 1>>, <<4, 1>>},
     uses_ip |-> {},
     transacts |-> {<<1, 2>>, <<1, 3>>},
     features |-> [i \in 1..4 |->
         IF i = 4 THEN FeatureOk(CriticalFeatures) ELSE FeatureOk(ZeroFeatures)]]

\* the suspect transacts with A11, which shares device D_1 with A2..A9 and
\* device D_2 with A10; A10 transacts with A12
CrowdData ==
    [name |-> "crowd", n_acc |-> 12, n_dev |-> 2, n_ip |-> 1,
     uses_device |-> {<<11, 1>>, <<11, 2>>, <<10, 2>>} \cup {<<i, 1>> : i \in 2..9},
     uses_ip |-> {},
     transacts |-> {<<1, 11>>, <<10, 12>>},
     features |-> [i \in 1..12 |->
         IF i = 11 THEN FeatureOk(CriticalFeatures) ELSE FeatureOk(ZeroFeatures)]]

\* the transaction chain with no risk signal on any account
QuietChainData ==
    [name |-> "quiet chain", n_acc |-> ChainLen, n_dev |-> 1, n_ip |-> 1,
     uses_device |-> {}, uses_ip |-> {},
     transacts |-> {<<i, i + 1>> : i \in 1..(ChainLen - 1)},
     features |-> [i \in 1..ChainLen |-> FeatureOk(ZeroFeatures)]]

SmallDataSets == {IsolatedData, UnreachableData, RingData, StarData, FanData}

\* TinkerPop limit(n) = range(0, n): -1 is "no limit", other negatives are
\* rejected as an illegal range (the query raises)
GremlinLimitOk(n) == n >= -1

GremlinLimit(rows, n) == IF n = -1 THEN rows ELSE Take(rows, n)

\* V().has(account).out(USES_x).limit(10).in(USES_x).hasLabel(account).limit(limit)
\* over a uses-relation: rows are <<infrastructure index, account index>>
SharedRows(uses, n_inf, n_acc, a, limit) ==
    LET rank(d) == Cardinality({e \in 1..d : <<a, e>> \in uses})
        all == [k \in 1..(n_inf * n_acc) |->
                   <<((k - 1) \div n_acc) + 1, ((k - 1) % n_acc) + 1>>]
        Hit(p) == /\ <<a, p[1]>> \in uses
                  /\ rank(p[1]) <= FANOUT_LIMIT
                  /\ <<p[2], p[1]>> \in uses
    IN  GremlinLimit(SelectSeq(all, Hit), limit)

\* V().has(account).both(TRANSACTS).hasLabel(account).dedup().limit(limit)
TxRows(data, a, limit) ==
    LET all == [k \in 1..data.n_acc |-> k]
        Hit(o) == <<a, o>> \in data.transacts \/ <<o, a>> \in data.transacts
    IN  GremlinLimit(SelectSeq(all, Hit), limit)

EmptyExpansion == [nodes |-> <<>>, edges |-> <<>>, connected_accounts |-> {}]

NodeInfo(id, label, type) == [id |-> id, label |-> label, type |-> type]

EdgeInfo(s, t, et) == [source |-> s, target |-> t, edge_type |-> et]

\* the result loop shared by _expand_via_devices and _expand_via_ips
RECURSIVE SharedLoop(_, _, _, _, _, _, _, _, _)
SharedLoop(rows, i, acc, seen_local, account_id, seen_nodes, limit, label, et) ==
    IF i > Len(rows) THEN acc
    ELSE
      LET inf_id == IF label = "device" THEN Dev(rows[i][1]) ELSE Ip(rows[i][1])
          other == Acct(rows[i][2])
          add_inf == inf_id \notin seen_nodes /\ inf_id \notin seen_local
          a1 == IF add_inf
                THEN [acc EXCEPT
                        !.nodes = Append(@, NodeInfo(inf_id, label, label)),
                        !.edges = Append(@, EdgeInfo(account_id, inf_id, et))]
                ELSE acc
          add_acct == other # account_id /\ other \notin seen_nodes
          a2 == IF add_acct
                THEN [a1 EXCEPT
                        !.nodes = Append(@, NodeInfo(other, "account", "connected")),
                        !.connected_accounts = @ \cup {other},
                        !.edges = Append(@, EdgeInfo(inf_id, other, et))]
                ELSE a1
          local2 == IF add_inf THEN seen_local \cup {inf_id} ELSE seen_local
      IN  IF Len(a2.nodes) >= limit THEN a2
          ELSE SharedLoop(rows, i + 1, a2, local2, account_id, seen_nodes,
                          limit, label, et)

expand_via_devices(data, a, seen_nodes, limit, fails) ==
    IF fails \/ ~GremlinLimitOk(limit) THEN EmptyExpansion
    ELSE SharedLoop(SharedRows(data.uses_device, data.n_dev, data.n_acc, a, limit),
                    1, EmptyExpansion, {}, Acct(a), seen_nodes, limit,
                    "device", "USES_DEVICE")

expand_via_ips(data, a, seen_nodes, limit, fails) ==
    IF fails \/ ~GremlinLimitOk(limit) THEN EmptyExpansion
    ELSE SharedLoop(SharedRows(data.uses_ip, data.n_ip, data.n_acc, a, limit),
                    1, EmptyExpansion, {}, Acct(a), seen_nodes, limit,
                    "ip", "USES_IP")

RECURSIVE TxLoop(_, _, _, _, _)
TxLoop(rows, i, acc, account_id, seen_nodes) ==
    IF i > Len(rows) THEN acc
    ELSE
      LET other == Acct(rows[i])
          a2 == IF other # account_id /\ other \notin seen_nodes
                THEN [acc EXCEPT
                        !.nodes = Append(@, NodeInfo(other, "account", "connected")),
                        !.connected_accounts = @ \cup {other},
                        !.edges = Append(@, EdgeInfo(account_id, other, "TRANSACTS"))]
                ELSE acc
      IN  TxLoop(rows, i + 1, a2, account_id, seen_nodes)

expand_via_transactions(data, a, seen_nodes, limit, fails) ==
    IF fails \/ ~GremlinLimitOk(limit) THEN EmptyExpansion
    ELSE TxLoop(TxRows(data, a, limit), 1, EmptyExpansion, Acct(a), seen_nodes)

Merge(acc, r) ==
    [nodes |-> acc.nodes \o r.nodes,
     edges |-> acc.edges \o r.edges,
     connected_accounts |-> acc.connected_accounts \cup r.connected_accounts]

\* line 112: seen_nodes = seen_nodes or set()
SeenOrEmptyDropped(seen_nodes) == {}

SeenOrEmpty(seen_nodes) == seen_nodes

\* the seed loop of expand_graph; failing is the set of <<seed, class>>
\* sub-queries whose Gremlin call raises
RECURSIVE SeedLoop(_, _, _, _, _, _, _, _)
SeedLoop(data, seeds, i, acc, edge_types, node_limit, seen_nodes, failing) ==
    IF i > Len(seeds) \/ Len(acc.nodes) >= node_limit THEN acc
    ELSE
      LET a == seeds[i][2]
          types == Range(edge_types)
          r1 == IF "device" \in types
                THEN Merge(acc, expand_via_devices(data, a, seen_nodes,
                               node_limit - Len(acc.nodes),
                               <<seeds[i], "device">> \in failing))
                ELSE acc
          r2 == IF "ip" \in types
                THEN Merge(r1, expand_via_ips(data, a, seen_nodes,
                               node_limit - Len(r1.nodes),
                               <<seeds[i], "ip">> \in failing))
                ELSE r1
          r3 == IF "tx" \in types
                THEN Merge(r2, expand_via_transactions(data, a, seen_nodes,
                               node_limit - Len(r2.nodes),
                               <<seeds[i], "tx">> \in failing))
                ELSE r2
      IN  SeedLoop(data, seeds, i + 1, r3, edge_types, node_limit,
                   seen_nodes, failing)

EmptyResult ==
    [nodes |-> <<>>, edges |-> <<>>, frontier_accounts |-> <<>>,
     estimated_cost |-> 0, success |-> FALSE]

\* the discovered accounts as a list: list(set) has no order of its own, the
\* model lists them by account index
RECURSIVE SetToSeq(_)
SetToSeq(S) ==
    IF S = {} THEN <<>>
    ELSE LET m == CHOOSE x \in S : \A y \in S : x[2] <= y[2]
         IN  <<m>> \o SetToSeq(S \ {m})

expand_graph_aborting(data, seeds, edge_types, node_limit, edge_limit, seen, failing) ==
    LET seen_nodes == SeenOrEmpty(seen)
        r == SeedLoop(data, seeds, 1, EmptyExpansion, edge_types, node_limit,
                      seen_nodes, failing)
        frontier == (r.connected_accounts \ Range(seeds)) \ seen_nodes
    IN  IF failing # {} THEN EmptyResult
        ELSE [nodes |-> Take(r.nodes, node_limit),
              edges |-> Take(r.edges, edge_limit),
              frontier_accounts |-> SetToSeq(frontier),
              estimated_cost |-> 2 * Len(r.nodes) + Len(r.edges),
              success |-> TRUE]

expand_graph(data, seeds, edge_types, node_limit, edge_limit, seen, failing) ==
    LET seen_nodes == SeenOrEmpty(seen)
        r == SeedLoop(data, seeds, 1, EmptyExpansion, edge_types, node_limit,
                      seen_nodes, failing)
        frontier == (r.connected_accounts \ Range(seeds)) \ seen_nodes
    IN  [nodes |-> Take(r.nodes, node_limit),
         edges |-> Take(r.edges, edge_limit),
         frontier_accounts |-> SetToSeq(frontier),
         estimated_cost |-> 2 * Len(r.nodes) + Len(r.edges),
         success |-> TRUE]

\* GraphTool.invoke: any exception of expand_graph becomes an empty result
GraphToolInvokeKeepingSeeds(data, seeds, edge_types, node_limit, edge_limit, seen, failing, down) ==
    IF down THEN [EmptyResult EXCEPT !.frontier_accounts = seeds]
    ELSE expand_graph(data, seeds, edge_types, node_limit, edge_limit,
                      Range(seen), failing)

GraphToolInvoke(data, seeds, edge_types, node_limit, edge_limit, seen, failing, down) ==
    IF down THEN EmptyResult
    ELSE expand_graph(data, seeds, edge_types, node_limit, edge_limit,
                      Range(seen), failing)

----------------------------------------------------------------------------
(* RiskScoringTool                                                         *)

\* feature combinations (after the caps) whose IEEE double sum falls one ulp
\* below the exact value 0.4 or 0.8, so that the threshold test fails
FloatShortfall ==
    {<<0, 2, 40, TRUE, TRUE>>, <<0, 5, 25, TRUE, TRUE>>,
     <<0, 11, 40, FALSE, TRUE>>, <<0, 11, 40, TRUE, FALSE>>,
     <<0, 14, 25, FALSE, TRUE>>, <<0, 14, 25, TRUE, FALSE>>,
     <<4, 2, 43, FALSE, TRUE>>, <<4, 2, 43, TRUE, FALSE>>,
     <<4, 5, 28, FALSE, TRUE>>, <<4, 5, 28, TRUE, FALSE>>,
     <<4, 11, 43, FALSE, FALSE>>, <<4, 14, 28, FALSE, FALSE>>,
     <<6, 2, 22, FALSE, TRUE>>, <<6, 2, 22, TRUE, FALSE>>,
     <<6, 11, 22, FALSE, FALSE>>, <<8, 5, 31, FALSE, FALSE>>,
     <<8, 10, 36, TRUE, TRUE>>, <<10, 4, 45, TRUE, TRUE>>,
     <<10, 7, 30, TRUE, TRUE>>}

\* get_account_features: the seven queries run in order inside one try; the
\* features whose query was not answered keep their default
FeatureBag(lookup) ==
    [shared_device_accounts |->
         IF lookup.answered >= 4 THEN lookup.features.shared_device_accounts ELSE 0,
     shared_ip_accounts |->
         IF lookup.answered >= 5 THEN lookup.features.shared_ip_accounts ELSE 0,
     transaction_count |->
         IF lookup.answered >= 3 THEN lookup.features.transaction_count ELSE 0,
     is_vpn_user |-> lookup.answered >= 6 /\ lookup.features.is_vpn_user,
     is_emulator_user |-> lookup.answered >= 7 /\ lookup.features.is_emulator_user]

\* the unnormalized score in 1/6 points: device 35, ip 25, vpn 15, emulator 15,
\* velocity 10 points at most
Points6Unguarded(f) ==
    21 * Min(f.shared_device_accounts, 10)
    + 10 * Min(f.shared_ip_accounts, 15)
    + (IF f.is_vpn_user THEN 90 ELSE 0)
    + (IF f.is_emulator_user THEN 90 ELSE 0)
    + 2 * Min(f.transaction_count - 20, 30)

Points6(f) ==
    21 * Min(f.shared_device_accounts, 10)
    + 10 * Min(f.shared_ip_accounts, 15)
    + (IF f.is_vpn_user THEN 90 ELSE 0)
    + (IF f.is_emulator_user THEN 90 ELSE 0)
    + (IF f.transaction_count > 20
       THEN 2 * Min(f.transaction_count - 20, 30) ELSE 0)

Capped(f) ==
    <<Min(f.shared_device_accounts, 10), Min(f.shared_ip_accounts, 15),
      Min(Max(f.transaction_count, 20), 50), f.is_vpn_user, f.is_emulator_user>>

\* normalized_score >= t/1000, as the double comparison decides it
AtLeast(f, t) ==
    LET p == Min(Points6(f), 600)
    IN  IF Capped(f) \in FloatShortfall THEN 5 * p > 3 * t ELSE 5 * p >= 3 * t

Bucket(f) ==
    IF AtLeast(f, 800) THEN "critical"
    ELSE IF AtLeast(f, 800) THEN "high"
    ELSE IF AtLeast(f, 400) THEN "medium"
    ELSE "low"

\* round(normalized_score, 3) in thousandths; p/600 is never a tie
Rounded(f) == (10 * Min(Points6(f), 600) + 3) \div 6

Reasons(f) ==
    LET r1 == IF f.shared_device_accounts >= 3 THEN <<"SHARED_DEVICES">> ELSE <<>>
        r2 == IF f.shared_ip_accounts >= 5 THEN <<"SHARED_IPS">> ELSE <<>>
        r3 == IF f.is_vpn_user THEN <<"VPN_USAGE">> ELSE <<>>
        r4 == IF f.is_emulator_user THEN <<"EMULATOR_USAGE">> ELSE <<>>
        r5 == IF f.transaction_count > 20 THEN <<"HIGH_TX_VELOCITY">> ELSE <<>>
        all == r1 \o r2 \o r3 \o r4 \o r5
    IN  IF all = <<>> THEN <<"LOW_RISK">> ELSE all

Evidence(f) ==
    [shared_devices |-> f.shared_device_accounts,
     shared_ips |-> f.shared_ip_accounts,
     transaction_count |-> f.transaction_count,
     is_vpn_user |-> f.is_vpn_user,
     is_emulator_user |-> f.is_emulator_user]

score_single_account(account_id, lookup) ==
    LET f == FeatureBag(lookup)
    IN  [account_id |-> account_id, score |-> Rounded(f), bucket |-> Bucket(f),
         reasons |-> Reasons(f), evidence |-> Evidence(f)]

DefaultScore(account_id) ==
    [account_id |-> account_id, score |-> ERROR_DEFAULT_SCORE, bucket |-> "low",
     reasons |-> <<"SCORING_ERROR">>, evidence |-> NoValue]

\* RiskScoringTool.invoke: one AccountScore per requested id, in order
RiskToolInvoke(data, account_ids) ==
    [i \in 1..Len(account_ids) |->
        LET lookup == data.features[account_ids[i][2]]
        IN  IF lookup.kind = "raise" THEN DefaultScore(account_ids[i])
            ELSE score_single_account(account_ids[i], lookup)]

\* the scores dict, kept as the list of its values in insertion order
ScoredIds(scores) == {scores[i].account_id : i \in DOMAIN scores}

ScoreOf(scores, id) ==
    scores[CHOOSE i \in DOMAIN scores : scores[i].account_id = id]

DictPut(scores, s) ==
    IF s.account_id \in ScoredIds(scores)
    THEN [i \in DOMAIN scores |->
             IF scores[i].account_id = s.account_id THEN s ELSE scores[i]]
    ELSE Append(scores, s)

RECURSIVE DictUpdate(_, _, _)
DictUpdate(scores, new, i) ==
    IF i > Len(new) THEN scores
    ELSE DictUpdate(DictPut(scores, new[i]), new, i + 1)

HighRiskCount(scores) ==
    Cardinality({i \in DOMAIN scores : scores[i].bucket \in {"high", "critical"}})

----------------------------------------------------------------------------
(* GraphState, its reducers and the registry's copy                        *)

create_initial_state(suspect, max_nodes, max_hops_cap, cost_budget) ==
    [suspect_account_id |-> suspect,
     max_nodes |-> max_nodes,
     max_edges |-> DEFAULT_MAX_EDGES,
     max_hops_cap |-> max_hops_cap,
     current_hop |-> 0,
     estimated_cost |-> 0,
     cost_budget |-> cost_budget,
     seen_nodes |-> <<>>,
     seen_edges |-> <<>>,
     frontier_accounts |-> <<suspect>>,
     subgraph_nodes |-> <<>>,
     subgraph_edges |-> <<>>,
     scores |-> <<>>,
     ranked_accounts |-> <<>>,
     expand_decision |-> NoValue,
     decisions_history |-> <<>>,
     fraud_ring_nodes |-> {},
     fraud_ring_edges |-> <<>>,
     innocent_neighbors |-> {},
     evidence_summary |-> NoValue,
     report_markdown |-> "",
     current_node |-> "start",
     workflow_status |-> "running",
     error_message |-> "",
     trace_events |-> <<>>]

\* the channels declared Annotated[List, add] in GraphState
AddChannels ==
    {"seen_nodes", "seen_edges", "subgraph_nodes", "subgraph_edges",
     "decisions_history", "trace_events"}

\* LangGraph applies a node's return value: add-channels append, others overwrite
ApplyUpdate(state, out) ==
    [f \in DOMAIN state |->
        IF f \in DOMAIN out
        THEN IF f \in AddChannels THEN state[f] \o out[f] ELSE out[f]
        ELSE state[f]]

ACCUMULATING_FIELDS ==
    {"seen_nodes", "seen_edges", "subgraph_nodes", "subgraph_edges",
     "trace_events", "decisions_history"}

\* _run_workflow's merge of a node output into case_data["state"]
MergeIntoCaseOverwriting(state, out) ==
    [f \in DOMAIN state |-> IF f \in DOMAIN out THEN out[f] ELSE state[f]]

MergeIntoCase(state, out) ==
    [f \in DOMAIN state |->
        IF f \in DOMAIN out
        THEN IF f \in ACCUMULATING_FIELDS THEN state[f] \o out[f] ELSE out[f]
        ELSE state[f]]

Event(type, node, tool, hop, flag) ==
    [type |-> type, node |-> node, tool |-> tool, hop |-> hop, flag |-> flag]

----------------------------------------------------------------------------
(* Workflow nodes: each maps the state to the update it returns            *)

load_context_node(state) ==
    LET suspect == state.suspect_account_id
    IN  [current_node |-> "load_context",
         frontier_accounts |-> <<suspect>>,
         subgraph_nodes |-> <<NodeInfo(suspect, "account", "suspect")>>,
         seen_nodes |-> <<suspect>>,
         trace_events |-> <<Event("node_start", "load_context", "", 0, FALSE),
                            Event("node_end", "load_context", "", 0, FALSE)>>]

\* the edge types the round expands: the previous decision's, or all three
EdgeTypesFor(state) ==
    IF state.expand_decision # NoValue /\ state.expand_decision.next_edge_types # <<>>
    THEN state.expand_decision.next_edge_types
    ELSE ALL_EDGE_TYPES

EdgeId(e) == <<e.source, e.target>>

traverse_graph_node_cost_overwritten(state, data, failing, down) ==
    LET frontier == state.frontier_accounts
        current_hop == state.current_hop
        remaining_node_budget ==
            Max(MIN_NODE_BUDGET, state.max_nodes - Len(state.seen_nodes))
        result == GraphToolInvoke(data, frontier, EdgeTypesFor(state),
                                  remaining_node_budget, state.max_edges,
                                  state.seen_nodes, failing, down)
    IN  [current_node |-> "traverse_graph",
         current_hop |-> current_hop + 1,
         estimated_cost |-> result.estimated_cost,
         frontier_accounts |-> result.frontier_accounts,
         subgraph_nodes |-> result.nodes,
         subgraph_edges |-> result.edges,
         seen_nodes |-> [i \in DOMAIN result.nodes |-> result.nodes[i].id],
         seen_edges |-> [i \in DOMAIN result.edges |-> EdgeId(result.edges[i])],
         trace_events |->
            <<Event("tool_call", "traverse_graph", "expand_graph", current_hop + 1, FALSE),
              Event("tool_result", "traverse_graph", "expand_graph", current_hop + 1,
                    result.success),
              Event("graph_update", "traverse_graph", "", current_hop + 1, FALSE)>>]

traverse_graph_node(state, data, failing, down) ==
    LET frontier == state.frontier_accounts
        current_hop == state.current_hop
        remaining_node_budget ==
            Max(MIN_NODE_BUDGET, state.max_nodes - Len(state.seen_nodes))
        result == GraphToolInvoke(data, frontier, EdgeTypesFor(state),
                                  remaining_node_budget, state.max_edges,
                                  state.seen_nodes, failing, down)
    IN  [current_node |-> "traverse_graph",
         current_hop |-> current_hop + 1,
         estimated_cost |-> state.estimated_cost + result.estimated_cost,
         frontier_accounts |-> result.frontier_accounts,
         subgraph_nodes |-> result.nodes,
         subgraph_edges |-> result.edges,
         seen_nodes |-> [i \in DOMAIN result.nodes |-> result.nodes[i].id],
         seen_edges |-> [i \in DOMAIN result.edges |-> EdgeId(result.edges[i])],
         trace_events |->
            <<Event("tool_call", "traverse_graph", "expand_graph", current_hop + 1, FALSE),
              Event("tool_result", "traverse_graph", "expand_graph", current_hop + 1,
                    result.success),
              Event("graph_update", "traverse_graph", "", current_hop + 1, FALSE)>>]

score_neighbors_node_skipping_suspect(state, data) ==
    LET existing == state.scores
        IsNew(n) == /\ n.label = "account" /\ n.id \notin ScoredIds(existing)
                    /\ n.id # state.suspect_account_id
        account_nodes == SelectSeq(state.subgraph_nodes, IsNew)
        account_ids == [i \in DOMAIN account_nodes |-> account_nodes[i].id]
    IN  IF account_ids = <<>>
        THEN [current_node |-> "score_neighbors",
              trace_events |-> <<Event("node_end", "score_neighbors", "", 0, FALSE)>>]
        ELSE [current_node |-> "score_neighbors",
              scores |-> DictUpdate(existing, RiskToolInvoke(data, account_ids), 1),
              trace_events |->
                 <<Event("tool_call", "score_neighbors", "score_accounts", 0, FALSE),
                   Event("tool_result", "score_neighbors", "score_accounts", 0, FALSE),
                   Event("score_update", "score_neighbors", "", 0, FALSE)>>]

score_neighbors_node(state, data) ==
    LET existing == state.scores
        IsNew(n) == n.label = "account" /\ n.id \notin ScoredIds(existing)
        account_nodes == SelectSeq(state.subgraph_nodes, IsNew)
        account_ids == [i \in DOMAIN account_nodes |-> account_nodes[i].id]
    IN  IF account_ids = <<>>
        THEN [current_node |-> "score_neighbors",
              trace_events |-> <<Event("node_end", "score_neighbors", "", 0, FALSE)>>]
        ELSE [current_node |-> "score_neighbors",
              scores |-> DictUpdate(existing, RiskToolInvoke(data, account_ids), 1),
              trace_events |->
                 <<Event("tool_call", "score_neighbors", "score_accounts", 0, FALSE),
                   Event("tool_result", "score_neighbors", "score_accounts", 0, FALSE),
                   Event("score_update", "score_neighbors", "", 0, FALSE)>>]

\* list.sort(key=score, reverse=True): stable, ties keep dict order
RECURSIVE SortDesc(_)
SortDesc(scores) ==
    IF scores = <<>> THEN <<>>
    ELSE LET m == CHOOSE i \in DOMAIN scores :
                    /\ \A j \in DOMAIN scores : scores[j].score <= scores[i].score
                    /\ \A j \in 1..(i - 1) : scores[j].score < scores[i].score
             rest == [j \in 1..(Len(scores) - 1) |->
                         IF j < m THEN scores[j] ELSE scores[j + 1]]
         IN  <<scores[m]>> \o SortDesc(rest)

select_candidates_node(state) ==
    LET sorted == SortDesc(state.scores)
    IN  [current_node |-> "select_candidates",
         ranked_accounts |-> [i \in DOMAIN sorted |-> sorted[i].account_id],
         trace_events |-> <<Event("node_end", "select_candidates", "", 0, FALSE)>>]

----------------------------------------------------------------------------
(* decide_expand: HardCapGuard, Advisor call, FallbackPolicy               *)

ExpandDecision(should_expand, next_edge_types, reason, llm_reasoning) ==
    [should_expand |-> should_expand, next_edge_types |-> next_edge_types,
     reason |-> reason, llm_reasoning |-> llm_reasoning]

DecisionRecord(hop, decision, reason, hard_stop) ==
    [hop |-> hop, decision |-> decision, reason |-> reason, hard_stop |-> hard_stop]

\* the hard caps checked before any Advisor call; "" stands for None
HardStopReasonStrict(state) ==
    IF state.current_hop > ABSOLUTE_MAX_HOPS THEN "Absolute hop limit reached"
    ELSE IF Len(state.frontier_accounts) = 0 THEN "No accounts in frontier to explore"
    ELSE ""

HardStopReason(state) ==
    IF state.current_hop >= ABSOLUTE_MAX_HOPS THEN "Absolute hop limit reached"
    ELSE IF Len(state.frontier_accounts) = 0 THEN "No accounts in frontier to explore"
    ELSE ""

\* what the Advisor call can come back with
AdvisorFailure(kind) ==
    [kind |-> kind, has_should_expand |-> FALSE, should_expand |-> FALSE,
     has_types |-> FALSE, next_edge_types |-> <<>>, has_reason |-> FALSE]

AdvisorObject(has_se, se, has_types, types, has_reason) ==
    [kind |-> "object", has_should_expand |-> has_se, should_expand |-> se,
     has_types |-> has_types, next_edge_types |-> types, has_reason |-> has_reason]

AdvisorEdgeChoices == {<<"tx">>, <<"device", "ip">>, <<>>}

\* raise: transport error, timeout or HTTP error status; unparseable: the
\* content is not JSON; not_object: JSON that is not an object;
\* bad_reasoning: an object whose "reasoning" is a non-empty object or a number
AdvisorFailureKinds == {"raise", "unparseable", "not_object"}

AdvisorReplies ==
    {AdvisorFailure(k) : k \in AdvisorFailureKinds \cup {"bad_reasoning"}}
    \cup {AdvisorObject(TRUE, se, TRUE, t, TRUE) :
             se \in BOOLEAN, t \in AdvisorEdgeChoices}
    \cup {AdvisorObject(TRUE, se, FALSE, <<>>, TRUE) : se \in BOOLEAN}
    \cup {AdvisorObject(FALSE, FALSE, FALSE, <<>>, FALSE)}

EagerReplies == {AdvisorObject(TRUE, TRUE, FALSE, <<>>, TRUE)}

\* the sum of an evidence count over a list of scores
RECURSIVE EvidenceSum(_, _)
EvidenceSum(scores, field) ==
    IF scores = <<>> THEN 0
    ELSE Head(scores).evidence[field] + EvidenceSum(Tail(scores), field)

\* _build_decision_context: what the prompt tells the Advisor about the state
\* (the prompt prints the scores of the top accounts to two decimals; the
\* model keeps them as stored)
decision_context_with_budgets(state) ==
    [hops_completed |-> state.current_hop,
     max_hops |-> state.max_hops_cap,
     cost_budget |-> state.cost_budget]

decision_context(state) ==
    LET IsHigh(x) == x.bucket \in {"high", "critical"}
        IsMedium(x) == x.bucket = "medium"
        IsLow(x) == x.bucket = "low"
        high_risk == SelectSeq(state.scores, IsHigh)
        top == Take(SortDesc(high_risk), 5)
    IN  [hops_completed |-> state.current_hop,
         accounts_analyzed |-> Len(state.scores),
         frontier |-> Len(state.frontier_accounts),
         high_risk |-> Len(high_risk),
         medium_risk |-> Len(SelectSeq(state.scores, IsMedium)),
         low_risk |-> Len(SelectSeq(state.scores, IsLow)),
         shared_devices |-> EvidenceSum(high_risk, "shared_devices"),
         shared_ips |-> EvidenceSum(high_risk, "shared_ips"),
         top_accounts |-> [i \in DOMAIN top |->
                             [account_id |-> top[i].account_id,
                              score |-> top[i].score,
                              shared_devices |-> top[i].evidence.shared_devices,
                              shared_ips |-> top[i].evidence.shared_ips]],
         frontier_preview |-> Take(state.frontier_accounts, 5)]

\* _call_llm_for_decision: raises, or builds the decision from the parsed object
call_llm_for_decision_types_dropped(reply) ==
    [raised |-> reply.kind \in AdvisorFailureKinds,
     decision |->
        ExpandDecision(
            IF reply.has_should_expand THEN reply.should_expand ELSE FALSE,
            ALL_EDGE_TYPES,
            IF reply.has_reason THEN "advisor reason" ELSE "LLM decision",
            IF reply.kind = "bad_reasoning" THEN "unsliceable" ELSE "advisor")]

call_llm_for_decision(reply) ==
    [raised |-> reply.kind \in AdvisorFailureKinds,
     decision |->
        ExpandDecision(
            IF reply.has_should_expand THEN reply.should_expand ELSE FALSE,
            IF reply.has_types THEN reply.next_edge_types ELSE ALL_EDGE_TYPES,
            IF reply.has_reason THEN "advisor reason" ELSE "LLM decision",
            IF reply.kind = "bad_reasoning" THEN "unsliceable" ELSE "advisor")]

fallback_decision_late(state) ==
    LET n == Len(state.frontier_accounts)
        high_risk_count == HighRiskCount(state.scores)
        reason ==
            IF n = 0 THEN "No more accounts in frontier to explore"
            ELSE IF state.current_hop >= 5 /\ high_risk_count >= 5
                 THEN "Fraud ring identified"
            ELSE IF state.current_hop >= 8 THEN "Exploration complete"
            ELSE "Continuing exploration"
        should_expand == reason = "Continuing exploration"
    IN  ExpandDecision(should_expand,
                       IF should_expand THEN ALL_EDGE_TYPES ELSE <<>>,
                       reason, "fallback")

fallback_decision(state) ==
    LET n == Len(state.frontier_accounts)
        high_risk_count == HighRiskCount(state.scores)
        reason ==
            IF n = 0 THEN "No more accounts in frontier to explore"
            ELSE IF state.current_hop >= 5 /\ high_risk_count >= 5
                 THEN "Fraud ring identified"
            ELSE IF state.current_hop >= 7 THEN "Exploration complete"
            ELSE "Continuing exploration"
        should_expand == reason = "Continuing exploration"
    IN  ExpandDecision(should_expand,
                       IF should_expand THEN ALL_EDGE_TYPES ELSE <<>>,
                       reason, "fallback")

\* the try/except of decide_expand_node around the Advisor call
AdvisorOrFallbackContinuing(state, reply) ==
    IF call_llm_for_decision(reply).raised
    THEN ExpandDecision(TRUE, ALL_EDGE_TYPES, "Continuing exploration", "fallback")
    ELSE call_llm_for_decision(reply).decision

AdvisorOrFallback(state, reply) ==
    IF call_llm_for_decision(reply).raised THEN fallback_decision(state)
    ELSE call_llm_for_decision(reply).decision

\* decide_expand_node: raises is TRUE when the node itself throws (slicing
\* llm_reasoning for the trace event is outside the try)
decide_expand_node(state, reply) ==
    LET hard_stop_reason == HardStopReason(state)
        hop == state.current_hop
    IN  IF hard_stop_reason # ""
        THEN [raises |-> FALSE, advisor_called |-> FALSE,
              out |-> [current_node |-> "decide_expand",
                       expand_decision |->
                           ExpandDecision(FALSE, <<>>, hard_stop_reason, "hard_stop"),
                       decisions_history |->
                           <<DecisionRecord(hop, FALSE, hard_stop_reason, TRUE)>>,
                       trace_events |->
                           <<Event("decision", "decide_expand", "", hop, TRUE)>>]]
        ELSE LET decision == AdvisorOrFallback(state, reply)
             IN  [raises |-> decision.llm_reasoning = "unsliceable",
                  advisor_called |-> TRUE,
                  out |-> [current_node |-> "decide_expand",
                           expand_decision |-> decision,
                           decisions_history |->
                               <<DecisionRecord(hop, decision.should_expand,
                                                decision.reason, FALSE)>>,
                           trace_events |->
                               <<Event("tool_call", "decide_expand", "llm_reasoning",
                                       hop, FALSE),
                                 Event("decision", "decide_expand", "", hop, FALSE)>>]]

should_continue_expansion(state) ==
    IF state.expand_decision # NoValue /\ state.expand_decision.should_expand
    THEN "traverse_graph"
    ELSE "build_subgraph"

----------------------------------------------------------------------------
(* build_subgraph (RingClassifier), build_evidence, generate_report        *)

FraudRingAccountsNoSuspect(state) ==
    {state.scores[i].account_id : i \in
        {j \in DOMAIN state.scores : state.scores[j].score >= FRAUD_RING_THRESHOLD}}

FraudRingAccounts(state) ==
    {state.suspect_account_id} \cup
    {state.scores[i].account_id : i \in
        {j \in DOMAIN state.scores : state.scores[j].score >= FRAUD_RING_THRESHOLD}}

InnocentAccountsMinusKnownRing(state) ==
    {state.scores[i].account_id : i \in
        {j \in DOMAIN state.scores : state.scores[j].score < FRAUD_RING_THRESHOLD}}
    \ state.fraud_ring_nodes

InnocentAccounts(state) ==
    {state.scores[i].account_id : i \in
        {j \in DOMAIN state.scores : state.scores[j].score < FRAUD_RING_THRESHOLD}}

IsInfra(nodes, id) ==
    \E i \in DOMAIN nodes : nodes[i].id = id /\ nodes[i].label \in {"device", "ip"}

FraudConnections(edges, id, ring) ==
    Cardinality({i \in DOMAIN edges :
        /\ edges[i].source = id \/ edges[i].target = id
        /\ (IF edges[i].source = id THEN edges[i].target ELSE edges[i].source) \in ring})

\* the test that puts an edge into fraud_ring_edges
RingEdgeFromRingOnly(e, ring, nodes) ==
    \/ e.source \in ring /\ e.target \in ring
    \/ e.source \in ring /\ IsInfra(nodes, e.target)

RingEdge(e, ring, nodes) ==
    \/ e.source \in ring /\ e.target \in ring
    \/ e.source \in ring /\ IsInfra(nodes, e.target)
    \/ e.target \in ring /\ IsInfra(nodes, e.source)

build_subgraph_node(state) ==
    LET ring == FraudRingAccounts(state)
        innocent == InnocentAccounts(state)
        nodes == state.subgraph_nodes
        edges == state.subgraph_edges
        InRing(e) == RingEdge(e, ring, nodes)
        ring_edges == SelectSeq(edges, InRing)
        Retag(n) ==
            IF n.id = state.suspect_account_id THEN [n EXCEPT !.type = "suspect"]
            ELSE IF n.id \in ring THEN [n EXCEPT !.type = "ring_candidate"]
            ELSE IF n.id \in innocent THEN [n EXCEPT !.type = "innocent"]
            ELSE IF n.label \in {"device", "ip"}
                 THEN [n EXCEPT !.type =
                          IF FraudConnections(edges, n.id, ring) >= 2
                          THEN "ring_infrastructure" ELSE n.label]
            ELSE n
    IN  [current_node |-> "build_subgraph",
         fraud_ring_nodes |-> ring,
         fraud_ring_edges |-> [i \in DOMAIN ring_edges |-> EdgeId(ring_edges[i])],
         innocent_neighbors |-> innocent,
         subgraph_nodes |-> [i \in DOMAIN nodes |-> Retag(nodes[i])],
         trace_events |-> <<Event("node_end", "build_subgraph", "", 0, FALSE),
                            Event("artifact", "build_subgraph", "", 0, FALSE)>>]

\* Counter entries [id, ring_users, first] listed by descending count; the
\* sort is stable, so equal counts keep the order of their first counted edge
RECURSIVE SortUsage(_)
SortUsage(usage) ==
    IF usage = {} THEN <<>>
    ELSE LET m == CHOOSE x \in usage : \A y \in usage :
                     \/ x.ring_users > y.ring_users
                     \/ x.ring_users = y.ring_users /\ x.first <= y.first
         IN  <<[id |-> m.id, ring_users |-> m.ring_users]>> \o SortUsage(usage \ {m})

\* _analyze_shared_devices / _analyze_shared_ips: per node of the kind, the
\* edges of the given type that join it to a ring account are counted
analyze_shared(ring, nodes, edges, label, edge_type) ==
    LET infra == {nodes[i].id : i \in {j \in DOMAIN nodes : nodes[j].label = label}}
        Counted(d) ==
            {i \in DOMAIN edges :
                /\ edges[i].edge_type = edge_type
                /\ \/ edges[i].source = d /\ edges[i].target \in ring
                   \/ edges[i].source \notin infra /\ edges[i].target = d
                      /\ edges[i].source \in ring}
        First(d) == CHOOSE i \in Counted(d) : \A j \in Counted(d) : i <= j
        usage == {[id |-> d, ring_users |-> Cardinality(Counted(d)), first |-> First(d)] :
                     d \in {x \in infra : Cardinality(Counted(x)) >= 2}}
        shared == SortUsage(usage)
    IN  [entries |-> shared,
         most_shared |-> IF shared = <<>> THEN NoValue ELSE shared[1]]

\* innocent_accounts[:5]: the list was made from a set, so any RATIONALE_LIMIT
\* of its members can come first, in any order
RationaleSlices(innocent) ==
    LET k == Min(RATIONALE_LIMIT, Cardinality(innocent))
    IN  {q \in [1..k -> innocent] : \A i, j \in 1..k : q[i] = q[j] => i = j}

\* the slice when the list happens to be in account order
IndexSlice(innocent) == {Take(SetToSeq(innocent), RATIONALE_LIMIT)}

\* _build_innocent_rationale over the slice innocent_accounts[:5]
build_innocent_rationale(slice, scores) ==
    [i \in DOMAIN slice |->
        [account_id |-> slice[i],
         score |-> IF slice[i] \in ScoredIds(scores)
                   THEN ScoreOf(scores, slice[i]).score ELSE 0]]

build_evidence_node(state, slice) ==
    [current_node |-> "build_evidence",
     evidence_summary |->
        [ring_size |-> Cardinality(state.fraud_ring_nodes),
         innocent_count |-> Cardinality(state.innocent_neighbors),
         shared_devices |->
             analyze_shared(state.fraud_ring_nodes, state.subgraph_nodes,
                            state.subgraph_edges, "device", "USES_DEVICE"),
         shared_ips |->
             analyze_shared(state.fraud_ring_nodes, state.subgraph_nodes,
                            state.subgraph_edges, "ip", "USES_IP"),
         innocent_rationale |->
             build_innocent_rationale(slice, state.scores)],
     trace_events |-> <<Event("tool_call", "build_evidence", "build_evidence", 0, FALSE),
                        Event("tool_result", "build_evidence", "build_evidence", 0, FALSE),
                        Event("artifact", "build_evidence", "", 0, FALSE)>>]

generate_report_node(state) ==
    [current_node |-> "generate_report",
     report_markdown |-> "report",
     workflow_status |-> "completed",
     trace_events |-> <<Event("tool_call", "generate_report", "generate_report", 0, FALSE),
                        Event("tool_result", "generate_report", "generate_report", 0, FALSE),
                        Event("artifact", "generate_report", "", 0, FALSE)>>]

----------------------------------------------------------------------------
(* The case registry, run requests and the workflow task                   *)

NoCase == [status |-> "absent", state |-> NoValue, events |-> <<>>]

\* bookkeeping of the current run; down and failing are the backend faults
\* of its latest expansion round, last_continue the case's latest decision to
\* continue, seeds the accounts the rounds of the run have expanded
NoRun ==
    [no |-> 0, start_hop |-> 0, start_decisions |-> 0, rounds |-> 0,
     classified |-> FALSE, down |-> FALSE, failing |-> {}, tasks |-> 0,
     cancelled |-> FALSE, last_continue |-> NoValue, seeds |-> {}]

\* Advisor calls made so far, and the reply of the latest decision step
NoAdvice == [calls |-> 0, last |-> "none", reply |-> NoValue]

\* the reply to an HTTP request: the endpoint and the status code
NoResponse == [op |-> "none", code |-> 0]

Response(op, code) == [op |-> op, code |-> code]

\* a progress-stream reader: event_generator's last_event_index, the trace
\* events it has yielded and the workflow_complete event it ended with
Readers == {"r1", "r2"}

NoReader ==
    [open |-> FALSE, last_event_index |-> 0, received |-> <<>>,
     terminal |-> NoValue]

NoReaders == [r \in Readers |-> NoReader]

MaxHopsChoices == {DEFAULT_MAX_HOPS}

CostBudgetChoices == {DEFAULT_COST_BUDGET}

MaxNodesChoices == {DEFAULT_MAX_NODES}

Init ==
    /\ backend \in SmallDataSets
    /\ running_cases = NoCase
    /\ wf = NoValue
    /\ pc = "idle"
    /\ run = NoRun
    /\ advisor = NoAdvice
    /\ response = NoResponse
    /\ readers = NoReaders
    /\ fb = NoValue

\* start_case: the status code of the reply; the budgets are passed on as given
start_case_status(alert_found, max_hops, cost_budget, max_nodes) ==
    IF alert_found THEN 200 ELSE 404

\* POST /api/case/start for a known alert, the budgets <<max_hops,
\* cost_budget, max_nodes>> drawn from the given set
StartCaseWith(budgets) ==
    /\ running_cases.status = "absent"
    /\ \E b \in budgets : LET mh == b[1]  cb == b[2]  mn == b[3] IN
          /\ start_case_status(TRUE, mh, cb, mn) = 200
          /\ running_cases' =
                [status |-> "created",
                 state |-> create_initial_state(Acct(1), mn, mh, cb),
                 events |-> <<>>]
          /\ response' = Response("start", start_case_status(TRUE, mh, cb, mn))
    /\ UNCHANGED <<backend, wf, pc, run, advisor, fb, readers>>

StartCase == StartCaseWith(MaxHopsChoices \X CostBudgetChoices \X MaxNodesChoices)

\* run_case: the status code of the reply
run_case_status_unguarded(case) ==
    IF case.status = "absent" THEN 404 ELSE 200

run_case_status(case) ==
    IF case.status = "absent" THEN 404
    ELSE IF case.status = "running" THEN 400
    ELSE 200

\* POST /api/case/{id}/run accepted: the task starts from the stored state
RunCase ==
    /\ run_case_status(running_cases) = 200
    /\ run.no < MaxRuns
    /\ running_cases' = [running_cases EXCEPT !.status = "running"]
    /\ wf' = running_cases.state
    /\ pc' = "load_context"
    /\ run' = [no |-> run.no + 1, start_hop |-> running_cases.state.current_hop,
               start_decisions |-> Len(running_cases.state.decisions_history),
               rounds |-> 0, classified |-> FALSE, down |-> FALSE, failing |-> {},
               tasks |-> run.tasks + 1, cancelled |-> FALSE,
               last_continue |-> run.last_continue, seeds |-> {}]
    /\ response' = Response("run", 200)
    /\ UNCHANGED <<backend, advisor, fb, readers>>

\* one astream event: the node's update reaches the channels and the registry
Commit(out, next) ==
    /\ wf' = ApplyUpdate(wf, out)
    /\ running_cases' =
          [running_cases EXCEPT !.state = MergeIntoCase(@, out),
                                !.events = @ \o out.trace_events]
    /\ pc' = next

\* the except branch of _run_workflow
WorkflowRaisesUnnoticed ==
    /\ running_cases' = [running_cases EXCEPT !.status = "completed"]
    /\ wf' = NoValue
    /\ pc' = "idle"

WorkflowRaises ==
    /\ running_cases' =
          [running_cases EXCEPT !.status = "error",
                                !.state.error_message = "raised"]
    /\ wf' = NoValue
    /\ pc' = "idle"

LoadContext ==
    /\ pc = "load_context"
    /\ Commit(load_context_node(wf), "traverse_graph")
    /\ UNCHANGED <<backend, run, advisor, fb, response, readers>>

\* the sub-queries of a round that fail: at most MaxFaultsPerRound of them
FaultSets(state, down) ==
    IF down THEN {{}}
    ELSE {F \in SUBSET (Range(state.frontier_accounts) \X Range(EdgeTypesFor(state))) :
             Cardinality(F) <= MaxFaultsPerRound}

\* one expansion round under the given backend faults
TraverseRound(down, failing) ==
    /\ pc = "traverse_graph"
    /\ Commit(traverse_graph_node(wf, backend, failing, down), "score_neighbors")
    /\ run' = [run EXCEPT !.rounds = @ + 1, !.down = down, !.failing = failing,
                           !.seeds = @ \cup Range(wf.frontier_accounts)]
    /\ UNCHANGED <<backend, advisor, fb, response, readers>>

TraverseGraph ==
    /\ pc = "traverse_graph"
    /\ \E down \in BOOLEAN : \E failing \in FaultSets(wf, down) :
          TraverseRound(down, failing)

\* an expansion round with every backend query answered
TraverseGraphHealthy == TraverseRound(FALSE, {})

ScoreNeighbors ==
    /\ pc = "score_neighbors"
    /\ Commit(score_neighbors_node(wf, backend), "select_candidates")
    /\ UNCHANGED <<backend, run, advisor, fb, response, readers>>

SelectCandidates ==
    /\ pc = "select_candidates"
    /\ Commit(select_candidates_node(wf), "decide_expand")
    /\ UNCHANGED <<backend, run, advisor, fb, response, readers>>

Decide(replies) ==
    /\ pc = "decide_expand"
    /\ \E reply \in replies :
          LET d == decide_expand_node(wf, reply)
          IN  /\ IF d.raises THEN WorkflowRaises
                 ELSE Commit(d.out, should_continue_expansion(ApplyUpdate(wf, d.out)))
              /\ advisor' = IF d.advisor_called
                            THEN [calls |-> advisor.calls + 1, last |-> reply.kind,
                                  reply |-> reply]
                            ELSE [advisor EXCEPT !.last = "not_called",
                                                 !.reply = NoValue]
              /\ run' = IF d.raises THEN [run EXCEPT !.tasks = @ - 1]
                         ELSE IF d.out.expand_decision.should_expand
                         THEN [run EXCEPT !.last_continue = d.out.expand_decision]
                         ELSE run
    /\ UNCHANGED <<backend, fb, response, readers>>

DecideExpand == Decide(AdvisorReplies)

BuildSubgraph ==
    /\ pc = "build_subgraph"
    /\ Commit(build_subgraph_node(wf), "build_evidence")
    /\ run' = [run EXCEPT !.classified = TRUE]
    /\ UNCHANGED <<backend, advisor, fb, response, readers>>

BuildEvidence ==
    /\ pc = "build_evidence"
    /\ \E slice \in IndexSlice(wf.innocent_neighbors) :
          Commit(build_evidence_node(wf, slice), "generate_report")
    /\ UNCHANGED <<backend, run, advisor, fb, response, readers>>

GenerateReport ==
    /\ pc = "generate_report"
    /\ Commit(generate_report_node(wf), "end")
    /\ UNCHANGED <<backend, run, advisor, fb, response, readers>>

\* the stream is exhausted: case_data["status"] = "completed"
FinishWorkflow ==
    /\ pc = "end"
    /\ running_cases' = [running_cases EXCEPT !.status = "completed"]
    /\ wf' = NoValue
    /\ pc' = "idle"
    /\ run' = [run EXCEPT !.tasks = @ - 1]
    /\ UNCHANGED <<backend, advisor, fb, response, readers>>

WorkflowStep ==
    \/ LoadContext
    \/ TraverseGraph
    \/ ScoreNeighbors
    \/ SelectCandidates
    \/ DecideExpand
    \/ BuildSubgraph
    \/ BuildEvidence
    \/ GenerateReport
    \/ FinishWorkflow

Next == StartCase \/ RunCase \/ WorkflowStep

Spec == Init /\ [][Next]_vars

----------------------------------------------------------------------------
(* The transaction chain investigated with an Advisor that always expands  *)

DecideExpandEager == Decide(EagerReplies)

InitEager ==
    /\ backend = ChainData
    /\ running_cases = NoCase
    /\ wf = NoValue
    /\ pc = "idle"
    /\ run = NoRun
    /\ advisor = NoAdvice
    /\ response = NoResponse
    /\ readers = NoReaders
    /\ fb = NoValue

NextEager ==
    \/ StartCase
    \/ RunCase
    \/ LoadContext
    \/ TraverseGraph
    \/ ScoreNeighbors
    \/ SelectCandidates
    \/ DecideExpandEager
    \/ BuildSubgraph
    \/ BuildEvidence
    \/ GenerateReport
    \/ FinishWorkflow

SpecEager == InitEager /\ [][NextEager]_vars

----------------------------------------------------------------------------
(* The FallbackPolicy applied to drawn inputs                              *)

FbInputs ==
    [hop : 0..MaxFbHop, frontier : 0..2, critical : 0..MaxFbCount,
     high : 0..1, low : 0..1]

FbScore(i, bucket) ==
    [account_id |-> Acct(i), score |-> 0, bucket |-> bucket,
     reasons |-> <<>>, evidence |-> NoValue]

FbState(in) ==
    [current_hop |-> in.hop,
     frontier_accounts |-> [i \in 1..in.frontier |-> Acct(100 + i)],
     scores |-> [i \in 1..(in.critical + in.high + in.low) |->
                    FbScore(i, IF i <= in.critical THEN "critical"
                               ELSE IF i <= in.critical + in.high THEN "high"
                               ELSE "low")]]

InitFallback ==
    /\ backend = IsolatedData
    /\ running_cases = NoCase
    /\ wf = NoValue
    /\ pc = "idle"
    /\ run = NoRun
    /\ advisor = NoAdvice
    /\ response = NoResponse
    /\ readers = NoReaders
    /\ \E in \in FbInputs : fb = [in |-> in, done |-> FALSE, out |-> NoValue]

ApplyFallback ==
    /\ ~fb.done
    /\ fb' = [fb EXCEPT !.done = TRUE, !.out = fallback_decision(FbState(fb.in))]
    /\ UNCHANGED <<backend, running_cases, wf, pc, run, advisor, response, readers>>

NextFallback == ApplyFallback

SpecFallback == InitFallback /\ [][NextFallback]_vars

----------------------------------------------------------------------------
(* The RiskScorer applied to a drawn batch of two accounts                 *)

ScoreFeatureInputs ==
    {Features(sd, si, tx, vpn, emu) :
        sd \in 0..MaxSharedDevices, si \in 0..MaxSharedIps,
        tx \in 0..MaxTransactions, vpn \in BOOLEAN, emu \in BOOLEAN}

ScoreLookups == {FeatureOk(f) : f \in ScoreFeatureInputs} \cup {FeatureRaise}

\* the second account of the batch: no signal, exactly 0.4, exactly 0.8,
\* every signal, a lookup that answered four of its seven queries, a failure
ProbeLookups ==
    {FeatureOk(ZeroFeatures), FeatureOk(Features(0, 0, 50, TRUE, TRUE)),
     FeatureOk(Features(6, 12, 47, TRUE, TRUE)), FeatureOk(CriticalFeatures),
     FeaturePartial(CriticalFeatures, 4), FeatureRaise}

ScoreData(batch) ==
    [name |-> "batch", n_acc |-> Len(batch), n_dev |-> 1, n_ip |-> 1,
     uses_device |-> {}, uses_ip |-> {}, transacts |-> {},
     features |-> batch]

InitScore ==
    /\ backend = IsolatedData
    /\ running_cases = NoCase
    /\ wf = NoValue
    /\ pc = "idle"
    /\ run = NoRun
    /\ advisor = NoAdvice
    /\ response = NoResponse
    /\ readers = NoReaders
    /\ \E a \in ScoreLookups, b \in ProbeLookups :
          fb = [in |-> <<a, b>>, done |-> FALSE, out |-> <<>>]

ScoreBatch ==
    /\ ~fb.done
    /\ fb' = [fb EXCEPT !.done = TRUE,
                        !.out = RiskToolInvoke(ScoreData(fb.in), <<Acct(1), Acct(2)>>)]
    /\ UNCHANGED <<backend, running_cases, wf, pc, run, advisor, response, readers>>

NextScore == ScoreBatch

SpecScore == InitScore /\ [][NextScore]_vars

----------------------------------------------------------------------------
(* The progress stream: readers of the case's events while the loop runs   *)

\* the final event of the stream
WorkflowComplete(case) ==
    [type |-> "workflow_complete", status |-> case.status,
     fraud_ring_size |-> Cardinality(case.state.fraud_ring_nodes),
     innocent_count |-> Cardinality(case.state.innocent_neighbors),
     total_hops |-> case.state.current_hop,
     total_cost |-> case.state.estimated_cost]

\* what event_generator does between two suspensions: it yields the next
\* stored event, or, with every stored event yielded, the final event of a
\* finished case; otherwise it sleeps
stream_next_status_first(reader, case) ==
    IF case.status \in {"completed", "error"}
    THEN [kind |-> "workflow_complete", item |-> WorkflowComplete(case)]
    ELSE IF reader.last_event_index < Len(case.events)
    THEN [kind |-> "event", item |-> case.events[reader.last_event_index + 1]]
    ELSE [kind |-> "sleep", item |-> NoValue]

stream_next(reader, case) ==
    IF reader.last_event_index < Len(case.events)
    THEN [kind |-> "event", item |-> case.events[reader.last_event_index + 1]]
    ELSE IF case.status \in {"completed", "error"}
    THEN [kind |-> "workflow_complete", item |-> WorkflowComplete(case)]
    ELSE [kind |-> "sleep", item |-> NoValue]

\* GET /api/case/{id}/stream for a registered case
OpenStream(r) ==
    /\ running_cases.status # "absent"
    /\ ~readers[r].open
    /\ readers' = [readers EXCEPT ![r] = [NoReader EXCEPT !.open = TRUE]]
    /\ UNCHANGED <<backend, running_cases, wf, pc, run, advisor, fb, response>>

\* the generator of reader r runs up to its next yield
StreamStep(r) ==
    /\ readers[r].open
    /\ readers[r].terminal = NoValue
    /\ LET next == stream_next(readers[r], running_cases)
       IN  /\ next.kind # "sleep"
           /\ readers' =
                 [readers EXCEPT ![r] =
                     IF next.kind = "event"
                     THEN [@ EXCEPT !.last_event_index = @ + 1,
                                    !.received = Append(@, next.item)]
                     ELSE [@ EXCEPT !.terminal = next.item]]
    /\ UNCHANGED <<backend, running_cases, wf, pc, run, advisor, fb, response>>

\* the Advisor replies of the streamed investigation: stop, or a reply whose
\* reasoning makes the decision step raise
StreamReplies ==
    {AdvisorObject(TRUE, FALSE, FALSE, <<>>, TRUE), AdvisorFailure("bad_reasoning")}

DecideExpandStreamed == Decide(StreamReplies)

InitStream ==
    /\ backend = StarData
    /\ running_cases = NoCase
    /\ wf = NoValue
    /\ pc = "idle"
    /\ run = NoRun
    /\ advisor = NoAdvice
    /\ response = NoResponse
    /\ readers = NoReaders
    /\ fb = NoValue

NextStream ==
    \/ StartCase
    \/ RunCase
    \/ LoadContext
    \/ TraverseGraphHealthy
    \/ ScoreNeighbors
    \/ SelectCandidates
    \/ DecideExpandStreamed
    \/ BuildSubgraph
    \/ BuildEvidence
    \/ GenerateReport
    \/ FinishWorkflow
    \/ \E r \in Readers : OpenStream(r)
    \/ \E r \in Readers : StreamStep(r)

SpecStream == InitStream /\ [][NextStream]_vars

----------------------------------------------------------------------------
(* The case endpoints called with any budgets, repeated run requests and   *)
(* the cancellation of the workflow task                                   *)

\* the budgets of a start request: the defaults, a small node cap, and a
\* non-positive hop cap, cost budget or node cap
RequestBudgets ==
    {<<DEFAULT_MAX_HOPS, DEFAULT_COST_BUDGET, DEFAULT_MAX_NODES>>,
     <<DEFAULT_MAX_HOPS, DEFAULT_COST_BUDGET, 2>>,
     <<0, DEFAULT_COST_BUDGET, DEFAULT_MAX_NODES>>,
     <<DEFAULT_MAX_HOPS, 0, DEFAULT_MAX_NODES>>,
     <<DEFAULT_MAX_HOPS, DEFAULT_COST_BUDGET, -1>>}

StartCaseAnyBudget == StartCaseWith(RequestBudgets)

\* POST /api/case/start for an alert the database does not know
StartUnknownAlert ==
    /\ running_cases.status = "absent"
    /\ \E b \in RequestBudgets :
          response' = Response("start", start_case_status(FALSE, b[1], b[2], b[3]))
    /\ UNCHANGED <<backend, running_cases, wf, pc, run, advisor, fb, readers>>

\* POST /api/case/{id}/run answered with an HTTP error
RunRejected ==
    /\ run_case_status(running_cases) # 200
    /\ response' = Response("run", run_case_status(running_cases))
    /\ UNCHANGED <<backend, running_cases, wf, pc, run, advisor, fb, readers>>

\* the task created by run_case is cancelled while it waits for the next
\* astream event: CancelledError is not an Exception, so the except branch of
\* _run_workflow does not run and the registry keeps what was merged so far
CancelTask ==
    /\ pc # "idle"
    /\ wf' = NoValue
    /\ pc' = "idle"
    /\ run' = [run EXCEPT !.tasks = @ - 1, !.cancelled = TRUE]
    /\ UNCHANGED <<backend, running_cases, advisor, fb, response, readers>>

InitService ==
    /\ backend \in {IsolatedData, StarData}
    /\ running_cases = NoCase
    /\ wf = NoValue
    /\ pc = "idle"
    /\ run = NoRun
    /\ advisor = NoAdvice
    /\ response = NoResponse
    /\ readers = NoReaders
    /\ fb = NoValue

NextService ==
    \/ StartCaseAnyBudget
    \/ StartUnknownAlert
    \/ RunCase
    \/ RunRejected
    \/ CancelTask
    \/ LoadContext
    \/ TraverseGraphHealthy
    \/ ScoreNeighbors
    \/ SelectCandidates
    \/ DecideExpand
    \/ BuildSubgraph
    \/ BuildEvidence
    \/ GenerateReport
    \/ FinishWorkflow

SpecService == InitService /\ [][NextService]_vars

----------------------------------------------------------------------------
(* The EvidenceBuilder applied to the classification of a drawn crowd: a   *)
(* critical suspect and up to MaxCrowd scored neighbours                   *)

CrowdLookups == {FeatureOk(ZeroFeatures), FeatureOk(MediumFeatures)}

EvidenceInputs == UNION {[1..n -> CrowdLookups] : n \in 0..MaxCrowd}

\* the state build_evidence is given: the crowd scored and classified
ClassifiedCrowd(crowd) ==
    LET lookups == <<FeatureOk(CriticalFeatures)>> \o crowd
        ids == [i \in DOMAIN lookups |-> Acct(i)]
        scored == [create_initial_state(Acct(1), DEFAULT_MAX_NODES, DEFAULT_MAX_HOPS,
                                        DEFAULT_COST_BUDGET)
                   EXCEPT !.scores = RiskToolInvoke(ScoreData(lookups), ids)]
    IN  ApplyUpdate(scored, build_subgraph_node(scored))

InitEvidence ==
    /\ backend = IsolatedData
    /\ running_cases = NoCase
    /\ wf = NoValue
    /\ pc = "idle"
    /\ run = NoRun
    /\ advisor = NoAdvice
    /\ response = NoResponse
    /\ readers = NoReaders
    /\ \E crowd \in EvidenceInputs : fb = [in |-> crowd, done |-> FALSE, out |-> NoValue]

ApplyEvidence ==
    /\ ~fb.done
    /\ \E slice \in RationaleSlices(ClassifiedCrowd(fb.in).innocent_neighbors) :
          fb' = [fb EXCEPT !.done = TRUE,
                           !.out = build_evidence_node(ClassifiedCrowd(fb.in),
                                                       slice).evidence_summary]
    /\ UNCHANGED <<backend, running_cases, wf, pc, run, advisor, response, readers>>

NextEvidence == ApplyEvidence

SpecEvidence == InitEvidence /\ [][NextEvidence]_vars

----------------------------------------------------------------------------
(* A crowded neighbourhood investigated under a small node cap: rounds      *)
(* whose node list is truncated                                             *)

\* the budgets of the start request: the defaults, and a node cap of 10
CrowdBudgets ==
    {<<DEFAULT_MAX_HOPS, DEFAULT_COST_BUDGET, DEFAULT_MAX_NODES>>,
     <<DEFAULT_MAX_HOPS, DEFAULT_COST_BUDGET, MIN_NODE_BUDGET>>}

StartCaseCrowd == StartCaseWith(CrowdBudgets)

InitCrowd ==
    /\ backend = CrowdData
    /\ running_cases = NoCase
    /\ wf = NoValue
    /\ pc = "idle"
    /\ run = NoRun
    /\ advisor = NoAdvice
    /\ response = NoResponse
    /\ readers = NoReaders
    /\ fb = NoValue

NextCrowd ==
    \/ StartCaseCrowd
    \/ RunCase
    \/ LoadContext
    \/ TraverseGraphHealthy
    \/ ScoreNeighbors
    \/ SelectCandidates
    \/ DecideExpand
    \/ BuildSubgraph
    \/ BuildEvidence
    \/ GenerateReport
    \/ FinishWorkflow

SpecCrowd == InitCrowd /\ [][NextCrowd]_vars

----------------------------------------------------------------------------
(* The transaction chains investigated while every Advisor call fails       *)

OutageReplies == {AdvisorFailure(k) : k \in AdvisorFailureKinds}

DecideExpandOutage == Decide(OutageReplies)

InitOutage ==
    /\ backend \in {ChainData, QuietChainData}
    /\ running_cases = NoCase
    /\ wf = NoValue
    /\ pc = "idle"
    /\ run = NoRun
    /\ advisor = NoAdvice
    /\ response = NoResponse
    /\ readers = NoReaders
    /\ fb = NoValue

NextOutage ==
    \/ StartCase
    \/ RunCase
    \/ LoadContext
    \/ TraverseGraph
    \/ ScoreNeighbors
    \/ SelectCandidates
    \/ DecideExpandOutage
    \/ BuildSubgraph
    \/ BuildEvidence
    \/ GenerateReport
    \/ FinishWorkflow

SpecOutage == InitOutage /\ [][NextOutage]_vars

----------------------------------------------------------------------------
(* Two cases on the same alert that differ in max_hops and cost_budget,    *)
(* run against the same backend: the second case (kept in fb) follows the  *)
(* first step by step, meets the same backend faults, and its Advisor is   *)
(* a function of the decision context it is sent                           *)

\* the <<max_hops, cost_budget>> of the second case
TwinBudgets ==
    {<<1, 1>>, <<DEFAULT_MAX_HOPS, 0>>, <<ABSOLUTE_MAX_HOPS + 1, DEFAULT_COST_BUDGET>>}

\* POST /api/case/start twice for the same alert
StartTwins ==
    /\ running_cases.status = "absent"
    /\ fb = NoValue
    /\ start_case_status(TRUE, DEFAULT_MAX_HOPS, DEFAULT_COST_BUDGET,
                         DEFAULT_MAX_NODES) = 200
    /\ running_cases' =
          [status |-> "created",
           state |-> create_initial_state(Acct(1), DEFAULT_MAX_NODES,
                                          DEFAULT_MAX_HOPS, DEFAULT_COST_BUDGET),
           events |-> <<>>]
    /\ \E t \in TwinBudgets :
          fb' = [status |-> "created",
                 state |-> create_initial_state(Acct(1), DEFAULT_MAX_NODES,
                                                t[1], t[2]),
                 wf |-> NoValue,
                 pc |-> "idle"]
    /\ response' = Response("start", 200)
    /\ UNCHANGED <<backend, wf, pc, run, advisor, readers>>

\* the second case has taken every step the first case has taken
TwinCaughtUp ==
    /\ fb # NoValue
    /\ fb.status = running_cases.status
    /\ fb.pc = pc
    /\ Len(fb.state.trace_events) = Len(running_cases.state.trace_events)

\* the first case is run once (and steps) when the second has caught up
RunFirst == TwinCaughtUp /\ run.no = 0 /\ RunCase

\* POST /api/case/{id}/run accepted for the second case
RunTwin ==
    /\ fb # NoValue /\ ~TwinCaughtUp
    /\ pc = "load_context"
    /\ run_case_status(fb) = 200
    /\ fb' = [fb EXCEPT !.status = "running", !.wf = fb.state,
                        !.pc = "load_context"]
    /\ UNCHANGED <<backend, running_cases, wf, pc, run, advisor, response, readers>>

\* one astream event of the second case's task
TwinCommit(out, next) ==
    /\ fb # NoValue /\ ~TwinCaughtUp
    /\ fb' = [fb EXCEPT !.wf = ApplyUpdate(@, out),
                        !.state = MergeIntoCase(@, out),
                        !.pc = next]
    /\ UNCHANGED <<backend, running_cases, wf, pc, run, advisor, response, readers>>

\* the except branch of _run_workflow in the second case's task
TwinRaises ==
    /\ fb # NoValue /\ ~TwinCaughtUp
    /\ fb' = [fb EXCEPT !.status = "error", !.state.error_message = "raised",
                        !.wf = NoValue, !.pc = "idle"]
    /\ UNCHANGED <<backend, running_cases, wf, pc, run, advisor, response, readers>>

TwinLoadContext ==
    /\ fb # NoValue /\ fb.pc = "load_context"
    /\ TwinCommit(load_context_node(fb.wf), "traverse_graph")

\* one expansion round of the case whose turn it is: the first case's round
\* meets any backend faults, the second case's round meets the same ones
TwinRound(first, out, down, failing) ==
    IF first
    THEN /\ Commit(out, "score_neighbors")
         /\ run' = [run EXCEPT !.rounds = @ + 1, !.down = down,
                                !.failing = failing,
                                !.seeds = @ \cup Range(wf.frontier_accounts)]
         /\ UNCHANGED <<backend, advisor, fb, response, readers>>
    ELSE TwinCommit(out, "score_neighbors")

TwinTraverseGraph ==
    /\ fb # NoValue
    /\ (IF TwinCaughtUp THEN pc ELSE fb.pc) = "traverse_graph"
    /\ LET first == TwinCaughtUp
           state == IF first THEN wf ELSE fb.wf
       IN  \E down \in IF first THEN BOOLEAN ELSE {run.down} :
           \E failing \in IF first THEN FaultSets(wf, down) ELSE {run.failing} :
              TwinRound(first,
                        traverse_graph_node(state, backend, failing, down),
                        down, failing)

TwinScoreNeighbors ==
    /\ fb # NoValue /\ fb.pc = "score_neighbors"
    /\ TwinCommit(score_neighbors_node(fb.wf, backend), "select_candidates")

TwinSelectCandidates ==
    /\ fb # NoValue /\ fb.pc = "select_candidates"
    /\ TwinCommit(select_candidates_node(fb.wf), "decide_expand")

\* the Advisor answers the second case as it answered the first when the two
\* decision contexts are the same (the first case's decide_expand step left
\* what its context is made of as it was), and in any way when they are not
TwinDecideExpand ==
    /\ fb # NoValue /\ fb.pc = "decide_expand"
    /\ \E reply \in IF /\ advisor.reply # NoValue
                       /\ decision_context(fb.wf)
                             = decision_context(running_cases.state)
                    THEN {advisor.reply} ELSE AdvisorReplies :
          LET t == decide_expand_node(fb.wf, reply)
          IN  IF t.raises THEN TwinRaises
              ELSE TwinCommit(t.out,
                      should_continue_expansion(ApplyUpdate(fb.wf, t.out)))

TwinBuildSubgraph ==
    /\ fb # NoValue /\ fb.pc = "build_subgraph"
    /\ TwinCommit(build_subgraph_node(fb.wf), "build_evidence")

TwinBuildEvidence ==
    /\ fb # NoValue /\ fb.pc = "build_evidence"
    /\ \E slice \in IndexSlice(fb.wf.innocent_neighbors) :
          TwinCommit(build_evidence_node(fb.wf, slice), "generate_report")

TwinGenerateReport ==
    /\ fb # NoValue /\ fb.pc = "generate_report"
    /\ TwinCommit(generate_report_node(fb.wf), "end")

TwinFinishWorkflow ==
    /\ fb # NoValue /\ ~TwinCaughtUp
    /\ fb.pc = "end"
    /\ fb' = [fb EXCEPT !.status = "completed", !.wf = NoValue, !.pc = "idle"]
    /\ UNCHANGED <<backend, running_cases, wf, pc, run, advisor, response, readers>>

InitTwin ==
    /\ backend \in {RingData, StarData, FanData}
    /\ running_cases = NoCase
    /\ wf = NoValue
    /\ pc = "idle"
    /\ run = NoRun
    /\ advisor = NoAdvice
    /\ response = NoResponse
    /\ readers = NoReaders
    /\ fb = NoValue

NextTwin ==
    \/ StartTwins
    \/ RunFirst
    \/ TwinCaughtUp /\ LoadContext
    \/ TwinCaughtUp /\ ScoreNeighbors
    \/ TwinCaughtUp /\ SelectCandidates
    \/ TwinCaughtUp /\ DecideExpand
    \/ TwinCaughtUp /\ BuildSubgraph
    \/ TwinCaughtUp /\ BuildEvidence
    \/ TwinCaughtUp /\ GenerateReport
    \/ TwinCaughtUp /\ FinishWorkflow
    \/ RunTwin
    \/ TwinLoadContext
    \/ TwinTraverseGraph
    \/ TwinScoreNeighbors
    \/ TwinSelectCandidates
    \/ TwinDecideExpand
    \/ TwinBuildSubgraph
    \/ TwinBuildEvidence
    \/ TwinGenerateReport
    \/ TwinFinishWorkflow

SpecTwin == InitTwin /\ [][NextTwin]_vars

----------------------------------------------------------------------------
(* Properties                                                              *)

CaseState == running_cases.state

HasCase == running_cases.status # "absent"

Suspect == CaseState.suspect_account_id

Last(s) == s[Len(s)]

LoopNodes == {"traverse_graph", "score_neighbors", "select_candidates", "decide_expand"}

\* C1: in every reachable state of a case the hop counter never exceeds the
\* absolute hop ceiling, also in a run started on a case that already finished
C1_HopCeiling ==
    HasCase => CaseState.current_hop <= ABSOLUTE_MAX_HOPS

\* C2: every started investigation ends having run the RingClassifier, after
\* at most ABSOLUTE_MAX_HOPS expansion rounds
C2_AlwaysClassifies ==
    /\ run.rounds <= ABSOLUTE_MAX_HOPS
    /\ running_cases.status \in {"completed", "error"} =>
          /\ run.classified
          /\ Suspect \in CaseState.fraud_ring_nodes

\* C3: once the RingClassifier has run, the suspect is a member of the ring set
C3_SuspectInRing ==
    run.classified =>
        /\ Suspect \in CaseState.fraud_ring_nodes
        /\ pc # "idle" => wf.suspect_account_id \in wf.fraud_ring_nodes

C3_Witness ==
    /\ run.classified
    /\ Suspect \in ScoredIds(CaseState.scores)
    /\ ScoreOf(CaseState.scores, Suspect).score < FRAUD_RING_THRESHOLD
    /\ Suspect \in CaseState.fraud_ring_nodes

\* C4: once the RingClassifier has run, ring = {suspect} + accounts scored at
\* or above 0.8, innocent = scored accounts minus ring, and the two are disjoint
C4_Partition ==
    run.classified =>
        LET scored == ScoredIds(CaseState.scores)
            ring == {Suspect} \cup
                    {a \in scored : ScoreOf(CaseState.scores, a).score >= FRAUD_RING_THRESHOLD}
        IN  /\ CaseState.fraud_ring_nodes = ring
            /\ CaseState.innocent_neighbors = scored \ ring
            /\ CaseState.fraud_ring_nodes \cap CaseState.innocent_neighbors = {}

\* C5: when the first round discovers nothing, the first decision is the hard
\* stop on the empty frontier and the run ends with ring = {suspect} and no
\* innocent account
C5_NothingDiscovered ==
    (/\ run.no = 1
     /\ run.classified
     /\ Range(CaseState.seen_nodes) = {Suspect}) =>
        /\ CaseState.decisions_history =
              <<DecisionRecord(1, FALSE, "No accounts in frontier to explore", TRUE)>>
        /\ CaseState.fraud_ring_nodes = {Suspect}
        /\ CaseState.innocent_neighbors = {}

NoDuplicates(s, Key(_)) ==
    \A i, j \in DOMAIN s : Key(s[i]) = Key(s[j]) => i = j

NodeKey(n) == n.id

EdgeKey(e) == <<e.source, e.target, e.edge_type>>

\* C7: after any sequence of expansion rounds the subgraph holds one entry per
\* node id and one entry per (source, target, edge type) triple
C7_NoDuplicateEntries ==
    (run.no = 1 /\ CaseState.current_node \in LoopNodes) =>
        /\ NoDuplicates(CaseState.subgraph_nodes, NodeKey)
        /\ NoDuplicates(CaseState.subgraph_edges, EdgeKey)

\* C8: the FallbackPolicy decision equals the rule table (empty frontier: stop;
\* hop >= 5 and count >= 5: stop, ring identified; hop >= 7: stop, exploration
\* complete; otherwise continue with all three edge types)
C8_FallbackTable ==
    fb.done =>
        LET hop == fb.in.hop
            nonempty == fb.in.frontier > 0
            count == fb.in.critical + fb.in.high
            out == fb.out
        IN  /\ ~nonempty => ~out.should_expand
            /\ (nonempty /\ hop >= 5 /\ count >= 5) =>
                  ~out.should_expand /\ out.reason = "Fraud ring identified"
            /\ (nonempty /\ ~(hop >= 5 /\ count >= 5) /\ hop >= 7) =>
                  ~out.should_expand /\ out.reason = "Exploration complete"
            /\ (nonempty /\ hop < 7 /\ ~(hop >= 5 /\ count >= 5)) =>
                  /\ out.should_expand
                  /\ out.reason = "Continuing exploration"
                  /\ Range(out.next_edge_types) = {"device", "ip", "tx"}
            /\ (hop = 2 /\ nonempty /\ count = 1) => out.should_expand
            /\ (hop = 6 /\ nonempty /\ count = 5) => ~out.should_expand

C8_Witness ==
    /\ fb.done
    /\ fb.in.hop = 6 /\ fb.in.frontier > 0 /\ fb.in.critical + fb.in.high = 5
    /\ fb.out.reason = "Fraud ring identified"

\* C9: when the guard does not stop and the Advisor call throws, times out or
\* returns a malformed or unparseable payload, the recorded decision is the
\* FallbackPolicy decision and the loop proceeds to the routing step
C9_FallbackOnAdvisorError ==
    (/\ advisor.last \in AdvisorFailureKinds \cup {"bad_reasoning"}
     /\ CaseState.current_node = "decide_expand" \/ running_cases.status = "error") =>
        /\ running_cases.status = "running"
        /\ CaseState.expand_decision = fallback_decision(CaseState)
        /\ Last(CaseState.decisions_history) =
              DecisionRecord(CaseState.current_hop,
                             fallback_decision(CaseState).should_expand,
                             fallback_decision(CaseState).reason, FALSE)
        /\ pc = should_continue_expansion(CaseState)

\* C10: the HardCapGuard is evaluated before the Advisor: a hard stop is
\* produced exactly when the hop counter has reached the ceiling or the
\* frontier is empty, and then the Advisor is not called in that hop, no
\* Advisor tool_call event precedes the decision event, and the decision is stop
C10_GuardBeforeAdvisor ==
    [][(pc = "decide_expand" /\ pc' # "decide_expand") =>
          LET hard == \/ wf.current_hop >= ABSOLUTE_MAX_HOPS
                      \/ wf.frontier_accounts = <<>>
              hop == wf.current_hop
          IN  /\ hard <=> (pc' # "idle" /\ Last(wf'.decisions_history).hard_stop)
              /\ hard =>
                    /\ advisor'.calls = advisor.calls
                    /\ ~wf'.expand_decision.should_expand
                    /\ pc' = "build_subgraph"
                    /\ SubSeq(running_cases'.events, Len(running_cases.events) + 1,
                              Len(running_cases'.events))
                          = <<Event("decision", "decide_expand", "", hop, TRUE)>>
              /\ ~hard => advisor'.calls = advisor.calls + 1]_vars

C10_Witness ==
    /\ pc = "build_subgraph"
    /\ CaseState.current_hop = ABSOLUTE_MAX_HOPS
    /\ CaseState.frontier_accounts # <<>>
    /\ Last(CaseState.decisions_history).hard_stop
    /\ advisor.last = "not_called"

\* the decision records appended by the current run
RunDecisions ==
    SubSeq(CaseState.decisions_history, run.start_decisions + 1,
           Len(CaseState.decisions_history))

AfterLoopNodes == {"build_subgraph", "build_evidence", "end"}

\* C11: every execution of the decision step appends exactly one record; in a
\* run the records are in increasing hop order, there are as many records as
\* expansion rounds performed, and only the last record has outcome stop
C11_DecisionHistory ==
    run.no >= 1 =>
        /\ Len(RunDecisions) =
              IF pc \in {"score_neighbors", "select_candidates", "decide_expand"}
              THEN run.rounds - 1 ELSE run.rounds
        /\ \A i \in DOMAIN RunDecisions :
              /\ RunDecisions[i].hop = run.start_hop + i
              /\ i < Len(RunDecisions) => RunDecisions[i].decision
        /\ (pc \in AfterLoopNodes \/ running_cases.status = "completed") =>
              /\ RunDecisions # <<>>
              /\ ~Last(RunDecisions).decision

\* C12: the accumulated cost never decreases from one step to the next, and
\* an expansion round that returns no node and no edge leaves it unchanged
C12_CostMonotone ==
    [][(HasCase /\ HasCase') =>
          /\ CaseState'.estimated_cost >= CaseState.estimated_cost
          /\ (pc # "idle" /\ pc' # "idle") => wf'.estimated_cost >= wf.estimated_cost
          /\ (/\ pc = "traverse_graph"
              /\ Len(CaseState'.subgraph_nodes) = Len(CaseState.subgraph_nodes)
              /\ Len(CaseState'.subgraph_edges) = Len(CaseState.subgraph_edges)) =>
                 /\ CaseState'.estimated_cost = CaseState.estimated_cost
                 /\ wf'.estimated_cost = wf.estimated_cost]_vars

\* a round that found nothing (backend down) after a round that cost something
C12_Witness ==
    /\ pc = "score_neighbors"
    /\ CaseState.current_hop >= 2
    /\ CaseState.estimated_cost > 0
    /\ ~running_cases.events[Len(running_cases.events) - 1].flag
    /\ running_cases.events[Len(running_cases.events) - 1].type = "tool_result"

\* C13: every AccountScore the RiskScorer produces, the default score of a
\* scoring failure included, has 0.0 <= score <= 1.0, and the capped
\* contributions sum to at most 100 points
C13_ScoreRange ==
    fb.done =>
        \A i \in DOMAIN fb.out :
            /\ fb.out[i].score >= 0
            /\ fb.out[i].score <= 1000
            /\ fb.in[i].kind # "raise" =>
                  /\ Points6(FeatureBag(fb.in[i])) >= 0
                  /\ Points6(FeatureBag(fb.in[i])) <= 600

\* counts above every cap and both flags set: the score is exactly 1.0
C13_Witness ==
    /\ fb.done
    /\ fb.in[1].kind = "ok"
    /\ fb.in[1].features.shared_device_accounts > 10
    /\ fb.in[1].features.shared_ip_accounts > 15
    /\ fb.in[1].features.transaction_count > 50
    /\ fb.out[1].score = 1000
    /\ fb.out[2].score = ERROR_DEFAULT_SCORE

BucketRank(b) ==
    CASE b = "low" -> 0 [] b = "medium" -> 1 [] b = "high" -> 2 [] OTHER -> 3

\* C14: the bucket is a monotonic function of the reported score: accounts
\* with the same reported score have the same bucket, and a higher score never
\* has a lower bucket
C14_BucketMonotone ==
    fb.done =>
        \A i, j \in DOMAIN fb.out :
            /\ fb.out[i].score = fb.out[j].score => fb.out[i].bucket = fb.out[j].bucket
            /\ fb.out[i].score > fb.out[j].score =>
                  BucketRank(fb.out[i].bucket) >= BucketRank(fb.out[j].bucket)

\* C15: running the RingClassifier again on the state a previous
\* classification produced yields the same ring set and the same innocent set
C15_ClassifierIdempotent ==
    run.classified =>
        LET again == build_subgraph_node(CaseState)
            twice == build_subgraph_node(ApplyUpdate(CaseState, again))
        IN  /\ again.fraud_ring_nodes = CaseState.fraud_ring_nodes
            /\ again.innocent_neighbors = CaseState.innocent_neighbors
            /\ twice.fraud_ring_nodes = CaseState.fraud_ring_nodes
            /\ twice.innocent_neighbors = CaseState.innocent_neighbors

\* a classification with several ring members and an innocent account, whose
\* node list was re-tagged and appended by the classifier
C15_Witness ==
    /\ run.classified
    /\ Cardinality(CaseState.fraud_ring_nodes) >= 2
    /\ CaseState.innocent_neighbors # {}
    /\ \E i \in DOMAIN CaseState.subgraph_nodes :
          CaseState.subgraph_nodes[i].type = "ring_candidate"

\* the node entries written by the latest classification
ClassifiedNodes ==
    SubSeq(CaseState.subgraph_nodes, (Len(CaseState.subgraph_nodes) \div 2) + 1,
           Len(CaseState.subgraph_nodes))

\* the ring-member accounts a node has an edge to
RingNeighbours(id) ==
    {a \in CaseState.fraud_ring_nodes :
        \E i \in DOMAIN CaseState.subgraph_edges :
            \/ CaseState.subgraph_edges[i].source = id /\ CaseState.subgraph_edges[i].target = a
            \/ CaseState.subgraph_edges[i].target = id /\ CaseState.subgraph_edges[i].source = a}

\* C16: at final classification a device or ip node is tagged
\* ring_infrastructure iff it has edges to two or more distinct ring-member
\* accounts, and otherwise keeps its base kind tag
C16_RingInfrastructure ==
    (run.classified /\ CaseState.current_node = "build_subgraph") =>
        \A i \in DOMAIN ClassifiedNodes :
            LET n == ClassifiedNodes[i]
            IN  n.label \in {"device", "ip"} =>
                   n.type = IF Cardinality(RingNeighbours(n.id)) >= 2
                            THEN "ring_infrastructure" ELSE n.label

\* the node ids one sub-query of a seed account reaches in the backend graph
NeighbourIds(a, type) ==
    LET d == backend
        devs == {x \in 1..d.n_dev : <<a, x>> \in d.uses_device}
        ips == {x \in 1..d.n_ip : <<a, x>> \in d.uses_ip}
    IN  CASE type = "device" ->
               {Dev(x) : x \in devs} \cup
               {Acct(o) : o \in {o \in 1..d.n_acc :
                                   o # a /\ \E x \in devs : <<o, x>> \in d.uses_device}}
          [] type = "ip" ->
               {Ip(x) : x \in ips} \cup
               {Acct(o) : o \in {o \in 1..d.n_acc :
                                   o # a /\ \E x \in ips : <<o, x>> \in d.uses_ip}}
          [] OTHER ->
               {Acct(o) : o \in {o \in 1..d.n_acc :
                                   o # a /\ (<<a, o>> \in d.transacts \/
                                             <<o, a>> \in d.transacts)}}

\* C17: a backend failure in one sub-query of one frontier account does not
\* abort the round: the failed sub-query contributes nothing and the round
\* returns what every other sub-query of every frontier account reaches
C17_FailureIsolation ==
    [][(pc = "traverse_graph" /\ pc' = "score_neighbors" /\ ~run'.down) =>
          LET seeds == Range(wf.frontier_accounts)
              types == Range(EdgeTypesFor(wf))
              seen == Range(wf.seen_nodes)
              expected ==
                  UNION {NeighbourIds(s[2], t) :
                            <<s, t>> \in (seeds \X types) \ run'.failing} \ seen
              added == SubSeq(wf'.seen_nodes, Len(wf.seen_nodes) + 1,
                              Len(wf'.seen_nodes))
          IN  /\ Range(added) = expected
              /\ Range(wf'.frontier_accounts) =
                    {id \in expected : id[1] = "A"} \ seeds
              /\ Range(CaseState'.frontier_accounts) = Range(wf'.frontier_accounts)
              /\ Event("tool_result", "traverse_graph", "expand_graph",
                       wf'.current_hop, TRUE) \in Range(wf'.trace_events)]_vars

\* round 2 on the fan data: the device sub-query of the first seed A2 failed,
\* the second seed A3 was still expanded and reached A4
C17_Witness ==
    /\ pc = "score_neighbors"
    /\ backend.name = "fan"
    /\ CaseState.current_hop = 2
    /\ ~run.down
    /\ run.failing = {<<Acct(2), "device">>}
    /\ CaseState.frontier_accounts = <<Acct(4)>>

\* C18: a round run while the backend is entirely unreachable returns no
\* node, no edge, an empty frontier and zero cost, advances the hop counter by
\* one and leaves seen sets, subgraph and scores alone; the decision that
\* follows is a hard stop (on the empty frontier below the hop ceiling)
C18_UnreachableBackend ==
    [][/\ (pc = "traverse_graph" /\ pc' = "score_neighbors" /\ run'.down) =>
              /\ wf'.frontier_accounts = <<>>
              /\ CaseState'.frontier_accounts = <<>>
              /\ wf'.current_hop = wf.current_hop + 1
              /\ CaseState'.current_hop = CaseState.current_hop + 1
              /\ wf'.estimated_cost = wf.estimated_cost
              /\ CaseState'.estimated_cost = CaseState.estimated_cost
              /\ \A f \in {"seen_nodes", "seen_edges", "subgraph_nodes",
                           "subgraph_edges", "scores"} :
                    wf'[f] = wf[f] /\ CaseState'[f] = CaseState[f]
       /\ (pc = "decide_expand" /\ pc' # "decide_expand" /\ run.down) =>
              /\ pc' = "build_subgraph"
              /\ advisor'.calls = advisor.calls
              /\ Last(wf'.decisions_history).hard_stop
              /\ ~Last(wf'.decisions_history).decision
              /\ wf.current_hop < ABSOLUTE_MAX_HOPS =>
                    Last(wf'.decisions_history).reason =
                        "No accounts in frontier to explore"]_vars

\* the backend went down in a later round of a run that had already found
\* nodes; the decision after it was the hard stop
C18_Witness ==
    /\ pc = "build_subgraph"
    /\ run.down
    /\ CaseState.current_hop >= 2
    /\ CaseState.estimated_cost > 0
    /\ CaseState.frontier_accounts = <<>>
    /\ Last(CaseState.decisions_history).reason = "No accounts in frontier to explore"

\* a feature lookup that raised or whose queries were not all answered
LookupFailed(lookup) == lookup.kind = "raise" \/ lookup.answered < 7

\* C19: a feature-lookup or scoring failure for one account of a batch does not
\* abort the batch: every account gets an AccountScore, the failed account the
\* fixed low default with the error reason code, and the other accounts the
\* scores they get when nothing fails
C19_ScoringFailureIsolated ==
    fb.done =>
        /\ Len(fb.out) = Len(fb.in)
        /\ \A i \in DOMAIN fb.in :
              /\ fb.out[i].account_id = Acct(i)
              /\ LookupFailed(fb.in[i]) =>
                    /\ fb.out[i].score = ERROR_DEFAULT_SCORE
                    /\ fb.out[i].bucket = "low"
                    /\ fb.out[i].reasons = <<"SCORING_ERROR">>
                    /\ \A j \in DOMAIN fb.in \ {i} :
                          fb.out[j] =
                              RiskToolInvoke(
                                  ScoreData([fb.in EXCEPT ![i] = FeatureOk(ZeroFeatures)]),
                                  <<Acct(1), Acct(2)>>)[j]

\* C20: when the Advisor call succeeds with a well-formed decision, the
\* recorded decision carries the Advisor's should_expand, reason and
\* next_edge_types (all three types when omitted) and the loop routes on it
C20_AdvisorDecisionUsed ==
    (/\ HasCase
     /\ CaseState.current_node = "decide_expand"
     /\ advisor.last = "object"
     /\ advisor.reply.has_should_expand
     /\ advisor.reply.has_reason) =>
        LET d == CaseState.expand_decision
            r == advisor.reply
        IN  /\ running_cases.status = "running"
            /\ d.should_expand = r.should_expand
            /\ d.reason = "advisor reason"
            /\ d.next_edge_types =
                  IF r.has_types THEN r.next_edge_types ELSE <<"device", "ip", "tx">>
            /\ d.llm_reasoning # "fallback"
            /\ wf.expand_decision = d
            /\ Last(CaseState.decisions_history) =
                  DecisionRecord(CaseState.current_hop, r.should_expand,
                                 "advisor reason", FALSE)
            /\ pc = IF r.should_expand THEN "traverse_graph" ELSE "build_subgraph"

\* the Advisor chose to stop where the FallbackPolicy would have continued,
\* and left next_edge_types out
C20_Witness ==
    /\ HasCase
    /\ CaseState.current_node = "decide_expand"
    /\ advisor.last = "object"
    /\ advisor.reply.has_should_expand /\ advisor.reply.has_reason
    /\ ~advisor.reply.has_types
    /\ ~advisor.reply.should_expand
    /\ fallback_decision(CaseState).should_expand
    /\ CaseState.expand_decision.next_edge_types = <<"device", "ip", "tx">>
    /\ pc = "build_subgraph"

\* C21: whatever the interleaving of the workflow loop with the readers of
\* the case's progress stream, each reader has received a prefix of the
\* case's events, in the order produced and each once, and it receives the
\* final workflow_complete event only when the case is completed or in error
\* and it has received every event produced so far; nothing follows it
C21_StreamOrder ==
    /\ [](\A r \in Readers :
             /\ readers[r].last_event_index = Len(readers[r].received)
             /\ readers[r].received =
                   SubSeq(running_cases.events, 1, Len(readers[r].received)))
    /\ [][\A r \in Readers :
             /\ (readers[r].terminal = NoValue /\ readers'[r].terminal # NoValue) =>
                   /\ running_cases.status \in {"completed", "error"}
                   /\ readers'[r].terminal.status = running_cases.status
                   /\ readers'[r].received = running_cases.events
             /\ readers[r].terminal # NoValue => readers'[r] = readers[r]]_vars

\* one reader ended with the final event of a failed run while the other,
\* opened later, is still part-way through the same events
C21_Witness ==
    /\ readers["r1"].terminal # NoValue
    /\ readers["r1"].terminal.status = "error"
    /\ readers["r1"].received # <<>>
    /\ readers["r2"].open
    /\ readers["r2"].terminal = NoValue
    /\ Len(readers["r2"].received) > 0
    /\ Len(readers["r2"].received) < Len(readers["r1"].received)

ValidBudgets(state) ==
    state.max_hops_cap > 0 /\ state.max_nodes > 0 /\ state.cost_budget > 0

\* C22: a start request with a non-positive hop cap, node cap or cost budget
\* is answered with an error, registers no case and no workflow loop runs on
\* such budgets
C22_InvalidBudgetsRejected ==
    /\ HasCase => ValidBudgets(CaseState)
    /\ pc # "idle" => ValidBudgets(wf)

\* C23: a cancelled case is left in the state of its last fully completed
\* hop: the latest merged update is not that of a node inside a hop
C23_CancelBetweenHops ==
    run.cancelled =>
        /\ pc = "idle"
        /\ CaseState.current_node \notin
              {"traverse_graph", "score_neighbors", "select_candidates"}

\* C24: the explored nodes never outnumber the case's node cap max_nodes and
\* the explored edges never outnumber its edge cap max_edges
C24_HardCaps ==
    (HasCase /\ ValidBudgets(CaseState)) =>
        /\ Cardinality(Range(CaseState.seen_nodes)) <= CaseState.max_nodes
        /\ Cardinality(Range(CaseState.seen_edges)) <= CaseState.max_edges

\* C25: at most one workflow task is alive, and only while the status is
\* running; a run request made while the status is running is answered 400
\* and changes neither the case's status, state nor events, nor the task
C25_SingleLoop ==
    /\ [](/\ run.tasks <= 1
          /\ run.tasks = 1 => running_cases.status = "running"
          /\ pc # "idle" <=> run.tasks = 1)
    /\ [][(/\ running_cases.status = "running"
           /\ run'.no # run.no \/ (response' # response /\ response'.op = "run")) =>
              /\ response' = Response("run", 400)
              /\ run' = run
              /\ running_cases' = running_cases
              /\ wf' = wf
              /\ pc' = pc]_vars

\* a run request was rejected in the middle of the second run of the case
C25_Witness ==
    /\ response = Response("run", 400)
    /\ run.no = 2
    /\ run.tasks = 1
    /\ pc = "score_neighbors"
    /\ running_cases.status = "running"

\* C26: the nodes one expansion round returns hold each node id once and the
\* edges it returns hold each (source, target, edge type) triple once, however
\* many frontier accounts or edge-type classes reach the node
C26_RoundDeduplicates ==
    [][(pc = "traverse_graph" /\ pc' = "score_neighbors") =>
          LET newNodes == SubSeq(wf'.subgraph_nodes, Len(wf.subgraph_nodes) + 1,
                                 Len(wf'.subgraph_nodes))
              newEdges == SubSeq(wf'.subgraph_edges, Len(wf.subgraph_edges) + 1,
                                 Len(wf'.subgraph_edges))
          IN  /\ NoDuplicates(newNodes, NodeKey)
              /\ NoDuplicates(newEdges, EdgeKey)]_vars

\* the bucket ladder low / medium / high / critical at 0.4 / 0.6 / 0.8
LadderBucket(f) ==
    IF AtLeast(f, 800) THEN "critical"
    ELSE IF AtLeast(f, 600) THEN "high"
    ELSE IF AtLeast(f, 400) THEN "medium"
    ELSE "low"

\* C27: the bucket of a scored account follows the ladder: normalized score
\* below 0.4 low, in [0.4, 0.6) medium, in [0.6, 0.8) high, at or above 0.8
\* critical
C27_BucketLadder ==
    fb.done =>
        \A i \in DOMAIN fb.out :
            fb.in[i].kind # "raise" =>
                fb.out[i].bucket = LadderBucket(FeatureBag(fb.in[i]))

\* the ids tagged ring_infrastructure by the latest classification
TaggedInfrastructure ==
    {ClassifiedNodes[i].id : i \in
        {j \in DOMAIN ClassifiedNodes : ClassifiedNodes[j].type = "ring_infrastructure"}}

\* the ids of the device and ip nodes of the subgraph
InfrastructureIds ==
    {CaseState.subgraph_nodes[i].id : i \in
        {j \in DOMAIN CaseState.subgraph_nodes :
            CaseState.subgraph_nodes[j].label \in {"device", "ip"}}}

\* the edges whose endpoints are both ring members, or one a ring member and
\* the other in the given set of infrastructure ids
RingEdgesOver(infra) ==
    LET ring == CaseState.fraud_ring_nodes
    IN  {i \in DOMAIN CaseState.subgraph_edges :
            LET e == CaseState.subgraph_edges[i]
            IN  \/ e.source \in ring /\ e.target \in ring
                \/ e.source \in ring /\ e.target \in infra
                \/ e.target \in ring /\ e.source \in infra}

RingUsers(id, edge_type) ==
    {a \in CaseState.fraud_ring_nodes :
        \E i \in DOMAIN CaseState.subgraph_edges :
            LET e == CaseState.subgraph_edges[i]
            IN  /\ e.edge_type = edge_type
                /\ \/ e.source = id /\ e.target = a
                   \/ e.target = id /\ e.source = a}

\* a shared-infrastructure table lists exactly the nodes of the kind with two
\* or more distinct ring users, each once with that number, largest first
SharedTableRight(table, label, edge_type) ==
    LET kind == {CaseState.subgraph_nodes[i].id : i \in
                    {j \in DOMAIN CaseState.subgraph_nodes :
                        CaseState.subgraph_nodes[j].label = label}}
        rows == table.entries
    IN  /\ {rows[i].id : i \in DOMAIN rows} =
              {d \in kind : Cardinality(RingUsers(d, edge_type)) >= 2}
        /\ \A i, j \in DOMAIN rows : rows[i].id = rows[j].id => i = j
        /\ \A i \in DOMAIN rows :
              rows[i].ring_users = Cardinality(RingUsers(rows[i].id, edge_type))
        /\ \A i, j \in DOMAIN rows : i < j => rows[i].ring_users >= rows[j].ring_users
        /\ IF rows = <<>> THEN table.most_shared = NoValue
           ELSE /\ table.most_shared # NoValue
                /\ \A i \in DOMAIN rows : table.most_shared.ring_users >= rows[i].ring_users

\* C29: in the evidence summary the shared-device and the shared-ip table
\* have one entry per device (ip) node to which two or more distinct ring
\* members connect, with that number as count, in non-increasing count order,
\* and the top entry has the largest count
C29_SharedTables ==
    (run.classified /\ CaseState.current_node = "build_evidence") =>
        /\ SharedTableRight(CaseState.evidence_summary.shared_devices,
                            "device", "USES_DEVICE")
        /\ SharedTableRight(CaseState.evidence_summary.shared_ips, "ip", "USES_IP")

\* C30: the innocent rationale lists min(5, number of innocents) distinct
\* innocent accounts with their scores, and no innocent account left out has
\* a score strictly lower than a listed one
C30_LowestInnocents ==
    fb.done =>
        LET crowd == ClassifiedCrowd(fb.in)
            innocent == crowd.innocent_neighbors
            rows == fb.out.innocent_rationale
            listed == {rows[i].account_id : i \in DOMAIN rows}
        IN  /\ Len(rows) = Min(5, Cardinality(innocent))
            /\ Cardinality(listed) = Len(rows)
            /\ listed \subseteq innocent
            /\ \A i \in DOMAIN rows :
                  rows[i].score = ScoreOf(crowd.scores, rows[i].account_id).score
            /\ \A a \in innocent \ listed : \A b \in listed :
                  ScoreOf(crowd.scores, a).score >= ScoreOf(crowd.scores, b).score

\* the fields the merge rule appends to, and those it overwrites
AppendOnlyFields ==
    {"seen_nodes", "seen_edges", "subgraph_nodes", "subgraph_edges",
     "trace_events", "decisions_history"}

OverwriteFields == {"frontier_accounts", "scores", "current_hop", "expand_decision"}

IsPrefix(s, t) == Len(s) <= Len(t) /\ SubSeq(t, 1, Len(s)) = s

\* the update returned by the step taken from position p under the backend
\* faults and the Advisor reply recorded for it
StepOutput(p, state, r, reply) ==
    CASE p = "load_context" -> load_context_node(state)
      [] p = "traverse_graph" -> traverse_graph_node(state, backend, r.failing, r.down)
      [] p = "score_neighbors" -> score_neighbors_node(state, backend)
      [] p = "select_candidates" -> select_candidates_node(state)
      [] p = "decide_expand" -> decide_expand_node(state, reply).out
      [] p = "build_subgraph" -> build_subgraph_node(state)
      [] p = "build_evidence" ->
             build_evidence_node(state, CHOOSE q \in IndexSlice(state.innocent_neighbors) : TRUE)
      [] OTHER -> generate_report_node(state)

\* C31: across every workflow step, in the workflow state and in the
\* registry's copy, the six append-only fields keep their previous contents as
\* a prefix, gaining exactly what the step returned; frontier, score map,
\* current hop and current decision take the step's value when returned; a
\* field the step does not return is unchanged; and after the step the
\* registry's copy equals the workflow state
C31_MergeRule ==
    /\ [](pc # "idle" => CaseState = wf)
    /\ [][(HasCase /\ HasCase') =>
             \A f \in AppendOnlyFields : IsPrefix(CaseState[f], CaseState'[f])]_vars
    /\ [][(pc \notin {"idle", "end"} /\ pc' # "idle") =>
             LET out == StepOutput(pc, wf, run', advisor'.reply)
             IN  /\ \A f \in AppendOnlyFields :
                       /\ IsPrefix(wf[f], wf'[f])
                       /\ wf'[f] = wf[f] \o (IF f \in DOMAIN out THEN out[f] ELSE <<>>)
                 /\ \A f \in OverwriteFields :
                       wf'[f] = IF f \in DOMAIN out THEN out[f] ELSE wf[f]
                 /\ \A f \in DOMAIN wf \ DOMAIN out : wf'[f] = wf[f]
                 /\ DOMAIN wf' = DOMAIN wf
                 /\ CaseState' = wf']_vars

\* the classification of a second run: every append-only field already held
\* entries of the first run when the steps of the second appended to it
C31_Witness ==
    /\ pc = "build_evidence"
    /\ run.no = 2
    /\ CaseState = wf
    /\ Len(CaseState.decisions_history) >= 2
    /\ Len(CaseState.seen_edges) >= 2
    /\ Len(CaseState.scores) >= 2
    /\ CaseState.frontier_accounts = <<>>

\* C32: the first expansion round of a case queries all three edge-type
\* classes; every later round queries the classes named in next_edge_types of
\* the latest decision to continue, or all three if that list is empty
C32_EdgeTypesFollowDecision ==
    [][(pc = "traverse_graph" /\ pc' = "score_neighbors") =>
          LET queried == Range(EdgeTypesFor(wf))
              named == IF run.last_continue = NoValue THEN <<>>
                       ELSE run.last_continue.next_edge_types
          IN  queried = IF named = <<>> THEN {"device", "ip", "tx"}
                        ELSE Range(named)]_vars

\* the node entries an expansion round appended to the subgraph
RoundNodes ==
    SubSeq(wf'.subgraph_nodes, Len(wf.subgraph_nodes) + 1, Len(wf'.subgraph_nodes))

\* C33: the frontier a round returns holds only account ids that are neither
\* seeds of the round nor in the seen set given to it, and every one of them
\* is among the nodes the round returned
C33_FrontierAmongReturnedNodes ==
    [][(pc = "traverse_graph" /\ pc' = "score_neighbors") =>
          LET frontier == Range(wf'.frontier_accounts)
          IN  /\ \A id \in frontier : id[1] = "A"
              /\ frontier \cap Range(wf.frontier_accounts) = {}
              /\ frontier \cap Range(wf.seen_nodes) = {}
              /\ frontier \subseteq {RoundNodes[i].id : i \in DOMAIN RoundNodes}]_vars

\* the ids of the account nodes of a state's subgraph node collection
AccountNodeIds(state) ==
    {state.subgraph_nodes[i].id : i \in
        {j \in DOMAIN state.subgraph_nodes : state.subgraph_nodes[j].label = "account"}}

\* the score entries of the first state are entries of the second, unchanged
ScoresKept(before, after) ==
    \A id \in ScoredIds(before.scores) :
        /\ id \in ScoredIds(after.scores)
        /\ ScoreOf(after.scores, id) = ScoreOf(before.scores, id)

\* C34: at every expansion decision and at final classification the score
\* map has an entry for exactly the account nodes of the subgraph, the suspect
\* included, and an entry once written is never changed afterwards
C34_ScoresCoverAccounts ==
    /\ [](pc \in {"decide_expand", "build_subgraph"} =>
             /\ ScoredIds(wf.scores) = AccountNodeIds(wf)
             /\ ScoredIds(CaseState.scores) = AccountNodeIds(CaseState)
             /\ Suspect \in ScoredIds(CaseState.scores))
    /\ [][/\ (HasCase /\ HasCase') => ScoresKept(CaseState, CaseState')
          /\ (pc # "idle" /\ pc' # "idle") => ScoresKept(wf, wf')]_vars

\* the decision of a second hop that scored new accounts, one of them with
\* the error default, next to the entries of the first hop
C34_Witness ==
    /\ pc = "decide_expand"
    /\ CaseState.current_hop >= 2
    /\ Len(CaseState.scores) >= 4
    /\ Last(CaseState.scores).reasons = <<"SCORING_ERROR">>
    /\ CaseState.scores[1].account_id = Suspect

\* the ring set the RingClassifier builds from the scored batch, for a
\* suspect that is not part of the batch
BatchRing ==
    LET scored == [create_initial_state(Acct(0), DEFAULT_MAX_NODES, DEFAULT_MAX_HOPS,
                                        DEFAULT_COST_BUDGET)
                   EXCEPT !.scores = fb.out]
    IN  build_subgraph_node(scored).fraud_ring_nodes

\* C35: a scored account other than the suspect is in the final ring set
\* exactly when its bucket is critical, and an account scored with the error
\* default is never a ring member
C35_RingIffCritical ==
    fb.done =>
        \A i \in DOMAIN fb.out :
            /\ fb.out[i].account_id \in BatchRing <=> fb.out[i].bucket = "critical"
            /\ fb.in[i].kind = "raise" => fb.out[i].account_id \notin BatchRing

\* C36: within one run no account is expanded in more than one round: the
\* seeds of a round are disjoint from the seeds of the earlier rounds of the
\* run, also when a round's node list was truncated to the node limit
C36_SeedsExpandedOnce ==
    [][(pc = "traverse_graph" /\ pc' = "score_neighbors") =>
          Range(wf.frontier_accounts) \cap run.seeds = {}]_vars

\* C37: in a run that starts at hop 0 and whose Advisor calls all fail, at
\* most 7 expansion rounds are performed and the hop counter never exceeds 7:
\* the decision taken at hop 7 is a stop
C37_OutageStopsAtSeven ==
    /\ [](run.start_hop = 0 =>
             /\ run.rounds <= 7
             /\ HasCase => CaseState.current_hop <= 7
             /\ pc # "idle" => wf.current_hop <= 7)
    /\ [][(run.start_hop = 0 /\ pc = "decide_expand" /\ wf.current_hop = 7) =>
             /\ pc' = "build_subgraph"
             /\ ~wf'.expand_decision.should_expand
             /\ ~Last(CaseState'.decisions_history).decision]_vars

\* the fallback stop at hop 7 of a first run with a non-empty frontier and
\* fewer than five high-risk accounts
C37_Witness ==
    /\ pc = "build_subgraph"
    /\ run.no = 1
    /\ run.rounds = 7
    /\ CaseState.current_hop = 7
    /\ CaseState.frontier_accounts # <<>>
    /\ advisor.calls = 7
    /\ advisor.last \in AdvisorFailureKinds
    /\ CaseState.expand_decision.reason = "Exploration complete"

C39_StatusLifecycle ==
    [][LET status == running_cases.status
           raised == /\ pc = "decide_expand"
                     /\ advisor'.calls = advisor.calls + 1
                     /\ decide_expand_node(wf, advisor'.reply).raises
       IN  /\ (status' = "completed" /\ status # "completed") =>
                 /\ pc = "end"
                 /\ run.classified
                 /\ CaseState' = CaseState
                 /\ CaseState.current_node = "generate_report"
                 /\ CaseState.fraud_ring_nodes = FraudRingAccounts(CaseState)
                 /\ CaseState.innocent_neighbors = InnocentAccounts(CaseState)
                 /\ \E slice \in IndexSlice(CaseState.innocent_neighbors) :
                       CaseState.evidence_summary =
                          build_evidence_node(CaseState, slice).evidence_summary
                 /\ CaseState.report_markdown =
                       generate_report_node(CaseState).report_markdown
           /\ raised => /\ status' = "error"
                        /\ CaseState'.error_message # ""
           /\ (status' = "error" /\ status # "error") => raised
           /\ (status \in {"completed", "error"} /\ status' # status) =>
                 /\ status' = "running"
                 /\ response' = Response("run", 200)
                 /\ run'.no = run.no + 1]_vars

\* a case whose first run ended in error and whose second run completed
C39_Witness ==
    /\ running_cases.status = "completed"
    /\ run.no > 1
    /\ run.classified
    /\ CaseState.error_message # ""
    /\ CaseState.report_markdown # ""

====
